---- MODULE Spec2Model ----
(***************************************************************************)
(* gitply: commit-log parser (core.iterate_commits), weekly/daily          *)
(* accumulation loops (weekly_history.main, week_summary.main) and the     *)
(* ISO calendar helper (utils.weeks_in_year).                              *)
(*                                                                         *)
(* Dates are proleptic Gregorian ordinals (datetime.toordinal()): day 1 is *)
(* 0001-01-01, a Monday.  Log lines are sequences of one-character         *)
(* strings so that slicing, stripping, splitting and matching are computed *)
(* the way the code computes them.                                         *)
(***************************************************************************)
EXTENDS Integers, Sequences, FiniteSets, Bags, TLC

VARIABLES
    \* ---- utils.weeks_in_year (one call) ----
    yr, d, week, wpc, ret,
    \* ---- core.iterate_commits under itertools.chain ----
    repo, consumed, pc, author, date, stats, out, err,
    \* ---- weekly_history.main / week_summary.main accumulation ----
    mode, user_map, stream, commits, additions, deletions,
    start_date, end_date, apc, gaps,
    \* ---- plotting axis: weekly_history.main / year_summary.main ----
    min_yr, min_week, max_yr, week_counts, labels, offsets, lastmon,
    oyr, oi, xpc, qres, bars,
    \* ---- maps.FileUserMap / maps.NullUserMap ----
    mapfile, mline, name_map, mpc, mq,
    \* ---- utils.get_proc_iter and the subprocess it reads ----
    pstate, exitcode, pipe, written, output, yielded, gpc,
    \* ---- the log text fed through parser and accumulation ----
    text,
    \* ---- year_summary.main / week_summary.main: clock, bound, position ----
    today, since, spc, serr

calVars == <<yr, d, week, wpc, ret>>
parseVars == <<repo, consumed, pc, author, date, stats, out, err>>
accVars == <<mode, user_map, stream, commits, additions, deletions,
             start_date, end_date, apc, gaps>>
plotVars == <<min_yr, min_week, max_yr, week_counts, labels, offsets, lastmon,
              oyr, oi, xpc, qres, bars>>
mapVars == <<mapfile, mline, name_map, mpc, mq>>
procVars == <<pstate, exitcode, pipe, written, output, yielded, gpc>>
textVars == <<text>>
sumVars == <<today, since, spc, serr>>
vars == <<calVars, parseVars, accVars, plotVars, mapVars, procVars, textVars, sumVars>>

\* Optional values: None is the empty tuple, a present value v is <<v>>
None == <<>>
Some(v) == <<v>>

(***************************************************************************)
(* Bounds                                                                  *)
(***************************************************************************)
FirstYear == 1990
LastYear == 2100
MaxLines == 4
MaxRepos == 2
MaxRecs == 3
AxisFirstYear == 2014
AxisLastYear == 2017
MaxMapLines == 2
MaxWrites == 3
LogFirstYear == 2015
LogLastYear == 2016
ClockFirstYear == 2019
ClockLastYear == 2021
MaxSumRecs == 2

(***************************************************************************)
(* datetime arithmetic (CPython datetime semantics)                        *)
(***************************************************************************)
IsLeap(y) == (y % 4 = 0) /\ ((y % 100 # 0) \/ (y % 400 = 0))

DaysBeforeYear(y) == (y - 1) * 365 + ((y - 1) \div 4) - ((y - 1) \div 100) + ((y - 1) \div 400)

DaysInMonth(y, m) ==
    IF m = 2 THEN (IF IsLeap(y) THEN 29 ELSE 28)
    ELSE IF m \in {4, 6, 9, 11} THEN 30 ELSE 31

RECURSIVE DaysBeforeMonth(_, _)
DaysBeforeMonth(y, m) ==
    IF m = 1 THEN 0 ELSE DaysBeforeMonth(y, m - 1) + DaysInMonth(y, m - 1)

\* datetime(year=y, month=m, day=dd) as an ordinal
Ymd2Ord(y, m, dd) == DaysBeforeYear(y) + DaysBeforeMonth(y, m) + dd

\* Monday = 0 .. Sunday = 6
Weekday(ord) == (ord + 6) % 7

RECURSIVE YearFrom(_, _)
YearFrom(ord, y) == IF ord <= DaysBeforeYear(y + 1) THEN y ELSE YearFrom(ord, y + 1)

\* calendar year of an ordinal
YearOf(ord) == YearFrom(ord, ((ord - 1) \div 366) + 1)

IsoWeek1Monday(y) ==
    LET firstday == Ymd2Ord(y, 1, 1)
        firstweekday == Weekday(firstday)
        week1monday == firstday - firstweekday
    IN  IF firstweekday > 3 THEN week1monday + 7 ELSE week1monday

\* date.isocalendar(): <<ISO year, ISO week, ISO weekday 1..7>>
IsoCalendar(ord) ==
    LET y == YearOf(ord)
        w == (ord - IsoWeek1Monday(y)) \div 7
        dw == (ord - IsoWeek1Monday(y)) % 7
    IN  IF w < 0
        THEN <<y - 1, ((ord - IsoWeek1Monday(y - 1)) \div 7) + 1,
               ((ord - IsoWeek1Monday(y - 1)) % 7) + 1>>
        ELSE IF w >= 52 /\ ord >= IsoWeek1Monday(y + 1)
        THEN <<y + 1, 1, dw + 1>>
        ELSE <<y, w + 1, dw + 1>>

(***************************************************************************)
(* utils.weeks_in_year, one action per statement of the loop               *)
(***************************************************************************)
InitParseIdle ==
    /\ repo = 0 /\ consumed = <<>> /\ pc = "idle" /\ author = None
    /\ date = None /\ stats = <<0, 0>> /\ out = <<>> /\ err = "none"

\* {}
EmptyDict == [x \in {} |-> 0]

InitAccIdle ==
    /\ mode = "idle" /\ user_map = "idle" /\ stream = EmptyBag
    /\ commits = EmptyDict /\ additions = EmptyDict /\ deletions = EmptyDict
    /\ start_date = None /\ end_date = None /\ apc = "idle" /\ gaps = EmptyDict

InitCalIdle ==
    /\ yr = 0 /\ d = 0 /\ week = 0 /\ wpc = "idle" /\ ret = 0

InitPlotIdle ==
    /\ min_yr = 0 /\ min_week = 0 /\ max_yr = 0 /\ week_counts = EmptyDict
    /\ labels = <<>> /\ offsets = EmptyDict /\ lastmon = None
    /\ oyr = 0 /\ oi = 0 /\ xpc = "idle" /\ qres = None /\ bars = EmptyDict

InitMapIdle ==
    /\ mapfile = <<>> /\ mline = 0 /\ name_map = EmptyDict /\ mpc = "idle" /\ mq = None

InitProcIdle ==
    /\ pstate = "idle" /\ exitcode = 0 /\ pipe = <<>> /\ written = <<>>
    /\ output = None /\ yielded = <<>> /\ gpc = "idle"

InitTextIdle == text = <<>>

InitSumIdle == today = 0 /\ since = None /\ spc = "idle" /\ serr = "none"

\* d = datetime(year=yr, month=12, day=31); isoyr, week, day = d.isocalendar()
WiyDec31(y) == Ymd2Ord(y, 12, 31)

WiyCall ==
    /\ wpc = "call"
    /\ d' = WiyDec31(yr)
    /\ week' = IsoCalendar(WiyDec31(yr))[2]
    /\ wpc' = "loop"
    /\ UNCHANGED <<yr, ret>>

\* (mutation: the loop never steps back out of week 1 of the next ISO year)
WiyLoopCond_Strict(w) == w < 1

\* while week <= 1
WiyLoopCond(w) == w <= 1

\* d -= timedelta(days=1); isoyr, week, day = d.isocalendar()
WiyStepBack ==
    /\ wpc = "loop"
    /\ WiyLoopCond(week)
    /\ d' = d - 1
    /\ week' = IsoCalendar(d - 1)[2]
    /\ UNCHANGED <<yr, wpc, ret>>

\* return week
WiyReturn ==
    /\ wpc = "loop"
    /\ ~WiyLoopCond(week)
    /\ ret' = week
    /\ wpc' = "returned"
    /\ UNCHANGED <<yr, d, week>>

\* the same function as an operator, for callers
RECURSIVE WiyLoop(_)
WiyLoop(dd) == IF WiyLoopCond(IsoCalendar(dd)[2]) THEN WiyLoop(dd - 1) ELSE IsoCalendar(dd)[2]

weeks_in_year(y) == WiyLoop(WiyDec31(y))

(***************************************************************************)
(* str operations used by core.iterate_commits                             *)
(***************************************************************************)
Digits == {"0", "1", "2", "3", "4", "5", "6", "7", "8", "9"}

DigitVal(c) ==
    CASE c = "0" -> 0 [] c = "1" -> 1 [] c = "2" -> 2 [] c = "3" -> 3
      [] c = "4" -> 4 [] c = "5" -> 5 [] c = "6" -> 6 [] c = "7" -> 7
      [] c = "8" -> 8 [] c = "9" -> 9

\* int(s) for a non-empty string of decimal digits
RECURSIVE IntOf(_)
IntOf(s) ==
    IF Len(s) = 0 THEN 0
    ELSE IntOf(SubSeq(s, 1, Len(s) - 1)) * 10 + DigitVal(s[Len(s)])

Whitespace == {" ", "\t", "\n", "\r"}

\* s[0:n]
Prefix(s, n) == SubSeq(s, 1, IF n < Len(s) THEN n ELSE Len(s))

\* s[n:]
Suffix(s, n) == SubSeq(s, n + 1, Len(s))

RECURSIVE LStripSet(_, _)
LStripSet(s, cs) ==
    IF Len(s) > 0 /\ s[1] \in cs THEN LStripSet(Tail(s), cs) ELSE s

RECURSIVE RStripSet(_, _)
RStripSet(s, cs) ==
    IF Len(s) > 0 /\ s[Len(s)] \in cs THEN RStripSet(SubSeq(s, 1, Len(s) - 1), cs) ELSE s

\* s.strip()
Strip(s) == LStripSet(RStripSet(s, Whitespace), Whitespace)

\* length of the longest prefix of s made of characters of cs
RECURSIVE Span(_, _)
Span(s, cs) == IF Len(s) > 0 /\ s[1] \in cs THEN 1 + Span(Tail(s), cs) ELSE 0

\* s.split(c, 1): one or two pieces
Split1(s, c) ==
    IF \E i \in 1..Len(s) : s[i] = c
    THEN LET i == CHOOSE i \in 1..Len(s) : s[i] = c /\ \A j \in 1..(i - 1) : s[j] # c
         IN  <<SubSeq(s, 1, i - 1), SubSeq(s, i + 1, Len(s))>>
    ELSE <<s>>

\* STATS_REGEX.match(line): None, or match.group(1, 2) converted by int()
StatsMatch(line) ==
    LET n1 == Span(line, Digits)
        r1 == Suffix(line, n1)
        nw == Span(r1, {" ", "\t"})
        r2 == Suffix(r1, nw)
        n2 == Span(r2, Digits)
    IN  IF n1 >= 1 /\ nw >= 1 /\ n2 >= 1
        THEN <<IntOf(Prefix(line, n1)), IntOf(Prefix(r2, n2))>>
        ELSE None

AllDigits(s) == \A i \in 1..Len(s) : s[i] \in Digits

\* datetime.strptime(s, "%Y-%m-%d"): Some(ordinal of the day), or None when
\* strptime raises ValueError
Strptime(s) ==
    IF Len(s) >= 8 /\ AllDigits(Prefix(s, 4)) /\ s[5] = "-"
    THEN LET rest == Suffix(s, 5)
             parts == Split1(rest, "-")
         IN  IF Len(parts) = 2
             THEN LET mt == parts[1]
                      dt == parts[2]
                      mok == /\ Len(mt) \in {1, 2} /\ AllDigits(mt)
                             /\ IntOf(mt) \in 1..12
                      dok == \/ Len(dt) \in {1, 2} /\ AllDigits(dt) /\ IntOf(dt) \in 1..31
                             \/ Len(dt) = 2 /\ dt[1] = " " /\ dt[2] \in (Digits \ {"0"})
                      y == IntOf(Prefix(s, 4))
                  IN  IF mok /\ dok /\ y >= 1
                         /\ IntOf(LStripSet(dt, {" "})) <= DaysInMonth(y, IntOf(mt))
                      THEN Some(Ymd2Ord(y, IntOf(mt), IntOf(LStripSet(dt, {" "}))))
                      ELSE None
             ELSE None
    ELSE None

(***************************************************************************)
(* core.iterate_commits                                                    *)
(***************************************************************************)
CommitPrefix == <<"c", "o", "m", "m", "i", "t", " ">>
AuthorPrefix == <<"A", "u", "t", "h", "o", "r", ":">>
DatePrefix == <<"D", "a", "t", "e", ":">>

\* line[0:7] == "commit "
IsCommit(line) == Prefix(line, 7) = CommitPrefix

\* line[0:7] == "Author:"
IsAuthor(line) == Prefix(line, 7) = AuthorPrefix

\* line[0:5] == "Date:"
IsDate(line) == Prefix(line, 5) = DatePrefix

\* _, t = line[7:].strip().split("<", 1); t = t.rstrip(">")
\* None when the unpacking raises ValueError
AuthorOf(line) ==
    LET parts == Split1(Strip(Suffix(line, 7)), "<")
    IN  IF Len(parts) = 2 THEN Some(RStripSet(parts[2], {">"})) ELSE None

\* datetime.strptime(line[5:].strip(), "%Y-%m-%d"); None when it raises
DateOf(line) == Strptime(Strip(Suffix(line, 5)))

\* (mutation: the matched numbers replace the running totals)
AddStats_Overwrite(st, line) ==
    LET m == StatsMatch(line)
    IN  IF m # None THEN <<m[1], m[2]>> ELSE st

\* stats = x + int(dx), y + int(dy) when STATS_REGEX matches
AddStats(st, line) ==
    LET m == StatsMatch(line)
    IN  IF m # None THEN <<st[1] + m[1], st[2] + m[2]>> ELSE st

\* (mutation: the pending tuple is reset before it is yielded)
EmitAtBoundary_AfterReset(a, dt, st) == Some(<<None, None, <<0, 0>>>>)

\* yield (author, date, stats) at the next "commit " line
EmitAtBoundary(a, dt, st) == Some(<<a, dt, st>>)

\* (mutation: nothing is yielded after the loop)
EmitAtEnd_Never(a, dt, st) == None

\* if author is not None and date is not None: yield author, date, stats
EmitAtEnd(a, dt, st) == IF a # None /\ dt # None THEN Some(<<a, dt, st>>) ELSE None

\* A StopIteration raised by next(it) inside the generator body either ends
\* the generator silently (interpreters before PEP 479 took effect) or is
\* turned into RuntimeError (Python 3.7 and later).
GeneratorStop == {"silent", "RuntimeError"}

\* Log lines the external process can produce
LCommit == <<"c", "o", "m", "m", "i", "t", " ", "1">>
LAuthor == <<"A", "u", "t", "h", "o", "r", ":", " ", "A", " ", "<", "a", "@", "x", ">">>
LAuthorNoLt == <<"A", "u", "t", "h", "o", "r", ":", " ", "A">>
LDate == <<"D", "a", "t", "e", ":", " ", " ", " ", "2", "0", "1", "5", "-", "0", "1", "-", "0", "5">>
LDateBad == <<"D", "a", "t", "e", ":", " ", "2", "0", "1", "5", "-", "0", "2", "-", "3", "0">>
LStat1 == <<"3", "\t", "1", "\t", "f">>
LStat2 == <<"1", "0", " ", " ", "5", " ", "f">>
LMsg == <<" ", " ", " ", " ", "1", " ", "2">>
LBin == <<"-", "\t", "-", "\t", "b">>

Lines == {LCommit, LAuthor, LAuthorNoLt, LDate, LDateBad, LStat1, LStat2, LMsg, LBin}

RECURSIVE TotalLen(_)
TotalLen(ss) == IF Len(ss) = 0 THEN 0 ELSE Len(ss[1]) + TotalLen(Tail(ss))

LinesRead == TotalLen(consumed)

Consume(line) == [consumed EXCEPT ![repo] = Append(@, line)]

Emitted(r) == [rec |-> r[1], repo |-> repo, at |-> Len(consumed[repo]) + 1]

\* while next(it)[0:7] != "commit ": pass      (one iteration)
SeekLine ==
    /\ pc = "seek"
    /\ LinesRead < MaxLines
    /\ \E line \in Lines :
        /\ consumed' = Consume(line)
        /\ pc' = IF IsCommit(line) THEN "in" ELSE "seek"
    /\ UNCHANGED <<repo, author, date, stats, out, err>>

\* for line in it: ...                          (one iteration of the body)
ScanLine ==
    /\ pc = "in"
    /\ LinesRead < MaxLines
    /\ \E line \in Lines :
        /\ consumed' = Consume(line)
        /\ IF IsAuthor(line)
           THEN IF AuthorOf(line) = None
                THEN /\ pc' = "raised" /\ err' = "ValueError"
                     /\ UNCHANGED <<author, date, stats, out>>
                ELSE /\ author' = AuthorOf(line)
                     /\ UNCHANGED <<pc, date, stats, out, err>>
           ELSE IF IsDate(line)
           THEN IF DateOf(line) = None
                THEN /\ pc' = "raised" /\ err' = "ValueError"
                     /\ UNCHANGED <<author, date, stats, out>>
                ELSE /\ date' = DateOf(line)
                     /\ UNCHANGED <<pc, author, stats, out, err>>
           ELSE IF IsCommit(line)
           THEN /\ out' = out \o [i \in 1..Len(EmitAtBoundary(author, date, stats)) |->
                                    Emitted(EmitAtBoundary(author, date, stats))]
                /\ author' = None /\ date' = None /\ stats' = <<0, 0>>
                /\ UNCHANGED <<pc, err>>
           ELSE /\ stats' = AddStats(stats, line)
                /\ UNCHANGED <<pc, author, date, out, err>>
    /\ UNCHANGED repo

\* itertools.chain: the next repository's generator starts, or the stream ends
ChainNext ==
    IF repo < MaxRepos
    THEN /\ repo' = repo + 1
         /\ consumed' = Append(consumed, <<>>)
         /\ pc' = "seek"
         /\ author' = None /\ date' = None /\ stats' = <<0, 0>>
    ELSE /\ pc' = "done"
         /\ UNCHANGED <<repo, consumed, author, date, stats>>

\* the line source is exhausted while next(it) is called in the seek loop
SeekEnd ==
    /\ pc = "seek"
    /\ \E g \in GeneratorStop :
        IF g = "RuntimeError"
        THEN /\ pc' = "raised" /\ err' = "RuntimeError"
             /\ UNCHANGED <<repo, consumed, author, date, stats, out>>
        ELSE /\ ChainNext
             /\ UNCHANGED <<out, err>>

\* the line source is exhausted in the for loop: the code after the loop
ScanEnd ==
    /\ pc = "in"
    /\ out' = out \o [i \in 1..Len(EmitAtEnd(author, date, stats)) |->
                        [rec |-> EmitAtEnd(author, date, stats)[1], repo |-> repo,
                         at |-> Len(consumed[repo]) + 1]]
    /\ ChainNext
    /\ UNCHANGED err

InitParse ==
    /\ repo = 1 /\ consumed = <<<<>>>> /\ pc = "seek"
    /\ author = None /\ date = None /\ stats = <<0, 0>>
    /\ out = <<>> /\ err = "none"
    /\ InitCalIdle /\ InitAccIdle
    /\ InitPlotIdle /\ InitMapIdle /\ InitProcIdle /\ InitTextIdle
    /\ InitSumIdle

NextParse ==
    \/ SeekLine /\ UNCHANGED <<calVars, accVars, plotVars, mapVars, procVars, textVars, sumVars>>
    \/ ScanLine /\ UNCHANGED <<calVars, accVars, plotVars, mapVars, procVars, textVars, sumVars>>
    \/ SeekEnd /\ UNCHANGED <<calVars, accVars, plotVars, mapVars, procVars, textVars, sumVars>>
    \/ ScanEnd /\ UNCHANGED <<calVars, accVars, plotVars, mapVars, procVars, textVars, sumVars>>

SpecParse == InitParse /\ [][NextParse]_vars

(***************************************************************************)
(* What the consumed log says, read off the lines themselves               *)
(***************************************************************************)
\* positions of the commit-boundary lines of a log
Bnds(ls) == {i \in 1..Len(ls) : IsCommit(ls[i])}

\* position of the boundary after position i, Len(ls) + 1 at end of input
NextB(ls, i) ==
    IF \E j \in Bnds(ls) : j > i
    THEN CHOOSE j \in Bnds(ls) : j > i /\ \A k \in Bnds(ls) : k > i => j <= k
    ELSE Len(ls) + 1

\* the k-th boundary
KthB(ls, k) == CHOOSE i \in Bnds(ls) : Cardinality({j \in Bnds(ls) : j <= i}) = k

\* positions strictly between boundary i and the next one
Seg(ls, i) == {k \in 1..Len(ls) : i < k /\ k < NextB(ls, i)}

SetMax(S) == CHOOSE x \in S : \A y \in S : y <= x

RECURSIVE StatSum(_, _, _)
StatSum(ls, S, g) ==
    IF S = {} THEN 0
    ELSE LET k == SetMax(S)
         IN  (IF StatsMatch(ls[k]) # None THEN StatsMatch(ls[k])[g] ELSE 0)
               + StatSum(ls, S \ {k}, g)

AuthorLines(ls, i) == {k \in Seg(ls, i) : IsAuthor(ls[k])}
DateLines(ls, i) == {k \in Seg(ls, i) : IsDate(ls[k])}

\* the record the log describes for the commit opened at boundary i
RefRec(ls, i) ==
    << IF AuthorLines(ls, i) = {} THEN None ELSE AuthorOf(ls[SetMax(AuthorLines(ls, i))]),
       IF DateLines(ls, i) = {} THEN None ELSE DateOf(ls[SetMax(DateLines(ls, i))]),
       <<StatSum(ls, Seg(ls, i), 1), StatSum(ls, Seg(ls, i), 2)>> >>

\* records emitted for repository r, in emission order
OutOf(r) == SelectSeq(out, LAMBDA e : e.repo = r)

\* repository r's generator has finished normally
Ended(r) == r < repo \/ (pc = "done" /\ r <= repo)

\* boundary i of repository r has been finalized
Finalized(r, i) == NextB(consumed[r], i) <= Len(consumed[r]) \/ Ended(r)

Repos == 1..Len(consumed)

\* C1: one record per commit-boundary line, except that a pending record
\* with author or date unset at finalization (by the next boundary or by end
\* of input) is dropped; no emitted record has a missing author or date.
C1_DropsIncomplete ==
    /\ \A n \in 1..Len(out) : out[n].rec[1] # None /\ out[n].rec[2] # None
    /\ \A r \in Repos :
         Len(OutOf(r)) = Cardinality({i \in Bnds(consumed[r]) :
                             /\ Finalized(r, i)
                             /\ AuthorLines(consumed[r], i) # {}
                             /\ DateLines(consumed[r], i) # {}})

\* C2: every emitted record's insertions and deletions are the sums over the
\* numstat-shaped lines strictly between its boundary and the next boundary
\* (or end of input); lines before the first boundary or of another commit
\* contribute nothing; no stat lines gives (0, 0).
C2_StatsAreSegmentSums ==
    \A r \in Repos : \A k \in 1..Len(OutOf(r)) :
        /\ k <= Cardinality(Bnds(consumed[r]))
        /\ OutOf(r)[k].rec[3] =
             <<StatSum(consumed[r], Seg(consumed[r], KthB(consumed[r], k)), 1),
               StatSum(consumed[r], Seg(consumed[r], KthB(consumed[r], k)), 2)>>

\* a record whose stats add up the two stat lines of its own commit
C2_Witness ==
    /\ Len(consumed[1]) = 4
    /\ IsCommit(consumed[1][1]) /\ IsCommit(consumed[1][4])
    /\ Len(out) = 1 /\ out[1].rec[3] = <<13, 6>>

\* C3: no line shape makes the parser raise; a malformed Author: or Date:
\* line is ignored and the scan continues.
C3_NoLineRaises == ~(pc = "raised" /\ err = "ValueError")

\* C4: input exhausted with no commit-boundary line ever seen (the empty
\* input included) gives an empty output and a normal termination.
C4_NoBoundaryEndsNormally ==
    \A r \in Repos :
        Bnds(consumed[r]) = {} => (~(r = repo /\ pc = "raised") /\ OutOf(r) = <<>>)

\* C5: when the source ends while the pending record has author and date
\* set, that record is emitted as the last record with the stats so far.
C5_FinalRecordFlushed ==
    \A r \in Repos :
        LET ls == consumed[r]
            b == SetMax(Bnds(ls))
        IN  (Ended(r) /\ Bnds(ls) # {} /\ RefRec(ls, b)[1] # None /\ RefRec(ls, b)[2] # None)
              => /\ Len(OutOf(r)) = Cardinality(Bnds(ls))
                 /\ OutOf(r)[Len(OutOf(r))].rec = RefRec(ls, b)
                 /\ OutOf(r)[Len(OutOf(r))].at = Len(ls) + 1

\* the source ended right after a commit with author, date and one stat line
C5_Witness ==
    /\ Ended(1)
    /\ Len(consumed[1]) >= 4
    /\ IsCommit(consumed[1][1])
    /\ Len(OutOf(1)) = 1
    /\ OutOf(1)[1].rec = <<AuthorOf(LAuthor), DateOf(LDate), <<10, 5>>>>

\* C6: records come out in the order of their boundary lines, each one at
\* the moment the following boundary (or the end of input) is read and
\* before any later line is consumed; with several repositories all records
\* of one repository precede every record of the next.
C6_OrderedAndLazy ==
    /\ \A i, j \in 1..Len(out) : i < j => out[i].repo <= out[j].repo
    /\ \A r \in Repos : \A k \in 1..Len(OutOf(r)) :
        /\ k <= Cardinality(Bnds(consumed[r]))
        /\ OutOf(r)[k].rec = RefRec(consumed[r], KthB(consumed[r], k))
        /\ OutOf(r)[k].at = NextB(consumed[r], KthB(consumed[r], k))

\* two records of one repository, each emitted when the next boundary line
\* was read, in boundary order
C6_Witness ==
    /\ Len(out) = 2
    /\ out[1].repo = 1 /\ out[1].rec[3] = <<3, 1>> /\ out[1].at = 3
    /\ out[2].repo = 1 /\ out[2].rec[3] = <<0, 0>> /\ out[2].at = 4

(***************************************************************************)
(* maps.NullUserMap / maps.FileUserMap                                     *)
(***************************************************************************)
EmailA == <<"a", "@", "x">>
EmailB == <<"b", "@", "y">>
NameAl == <<"a", "l">>
Unknown == <<"u", "n", "k", "n", "o", "w", "n">>

\* self.name_map as loaded from a user-map file holding the line "a@x al"
NameMap == [e \in {EmailA} |-> NameAl]

\* NullUserMap.map: return email
NullMap(email) == email

\* FileUserMap.map: self.name_map[email], "unknown" on KeyError
FileMap(email) ==
    IF email # None /\ email[1] \in DOMAIN NameMap
    THEN Some(NameMap[email[1]])
    ELSE Some(Unknown)

\* user_map.map(email)
MapUser(um, email) == IF um = "file" THEN FileMap(email) ELSE NullMap(email)

(***************************************************************************)
(* Accumulation loops: weekly_history.main and week_summary.main           *)
(***************************************************************************)
\* dct[k] = v
Put(dct, k, v) == [x \in (DOMAIN dct) \cup {k} |-> IF x = k THEN v ELSE dct[x]]

\* if not k in dct: dct[k] = v
Ensure(dct, k, v) == IF k \in DOMAIN dct THEN dct ELSE Put(dct, k, v)

\* the three "if not ... in ...:" initialisations of dct[user][year][week]
Ensure3(dct, u, y, w, v) ==
    LET d1 == Ensure(dct, u, EmptyDict)
        d2 == Put(d1, u, Ensure(d1[u], y, EmptyDict))
    IN  Put(d2, u, Put(d2[u], y, Ensure(d2[u][y], w, v)))

\* dct[user][year][week] = v
Put3(dct, u, y, w, v) == Put(dct, u, Put(dct[u], y, Put(dct[u][y], w, v)))

\* the two "if not ... in ...:" initialisations of dct[user][date]
Ensure2(dct, u, k, v) ==
    LET d1 == Ensure(dct, u, EmptyDict)
    IN  Put(d1, u, Ensure(d1[u], k, v))

\* dct[user][date] = v
Put2(dct, u, k, v) == Put(dct, u, Put(dct[u], k, v))

\* (mutation: the raw commit date is kept as the bucket's date)
PeriodStart_Raw(dt, dow) == dt

\* (mutation: the day before the commit's weekday number, a Sunday)
PeriodStart_Sunday(dt, dow) == dt - dow

\* date.replace(hour=0, ...) - timedelta(days=(dow-1))
PeriodStart(dt, dow) == dt - (dow - 1)

\* if start_date is None or date < start_date: start_date = date
StartDate(sd, monday) == IF sd = None \/ monday < sd[1] THEN Some(monday) ELSE sd

\* (mutation: end_date is the date of the last record)
EndDate_Last(ed, monday) == Some(monday)

\* if end_date is None or date > end_date: end_date = date
EndDate(ed, monday) == IF ed = None \/ monday > ed[1] THEN Some(monday) ELSE ed

\* (mutation: the commit count is set, not incremented)
IncCount_Reset(prev) == 1

\* prev+1
IncCount(prev) == prev + 1

Acc0 == [commits |-> EmptyDict, additions |-> EmptyDict, deletions |-> EmptyDict,
         start_date |-> None, end_date |-> None]

\* body of the for loop of weekly_history.main for one (email, date, stats)
FoldWeekly(acc, um, rec) ==
    LET iso == IsoCalendar(rec[2][1])
        year == iso[1]
        wk == iso[2]
        dow == iso[3]
        monday == PeriodStart(rec[2][1], dow)
        user == MapUser(um, rec[1])
        c == Ensure3(acc.commits, user, year, wk, <<0, monday>>)
        a == Ensure3(acc.additions, user, year, wk, 0)
        dl == Ensure3(acc.deletions, user, year, wk, 0)
    IN  [commits |-> Put3(c, user, year, wk,
                          <<IncCount(c[user][year][wk][1]), c[user][year][wk][2]>>),
         additions |-> Put3(a, user, year, wk, a[user][year][wk] + rec[3][1]),
         deletions |-> Put3(dl, user, year, wk, dl[user][year][wk] + rec[3][2]),
         start_date |-> StartDate(acc.start_date, monday),
         end_date |-> EndDate(acc.end_date, monday)]

\* body of the for loop of week_summary.main for one (email, date, stats)
FoldDaily(acc, um, rec) ==
    LET day == rec[2][1]
        user == MapUser(um, rec[1])
        c == Ensure2(acc.commits, user, day, 0)
        a == Ensure2(acc.additions, user, day, 0)
        dl == Ensure2(acc.deletions, user, day, 0)
    IN  [commits |-> Put2(c, user, day, c[user][day] + 1),
         additions |-> Put2(a, user, day, a[user][day] + rec[3][1]),
         deletions |-> Put2(dl, user, day, dl[user][day] + rec[3][2]),
         start_date |-> acc.start_date,
         end_date |-> acc.end_date]

AccNow == [commits |-> commits, additions |-> additions, deletions |-> deletions,
           start_date |-> start_date, end_date |-> end_date]

\* Commit dates the record stream can carry
D_2015_12_28 == Ymd2Ord(2015, 12, 28)
D_2016_01_01 == Ymd2Ord(2016, 1, 1)
D_2016_01_04 == Ymd2Ord(2016, 1, 4)
D_2016_01_14 == Ymd2Ord(2016, 1, 14)
D_2016_02_01 == Ymd2Ord(2016, 2, 1)

CommitDates == {D_2015_12_28, D_2016_01_01, D_2016_01_04, D_2016_01_14, D_2016_02_01}

\* Records iterate_commits can yield: complete ones, and the tuple it yields
\* at a boundary for a commit that had no Author: and no Date: line
Records ==
    ({Some(EmailA), Some(EmailB)} \X {Some(dt) : dt \in CommitDates} \X {<<3, 1>>, <<0, 5>>})
        \cup {<<None, None, <<0, 0>>>>}

\* one iteration of "for email, date, stats in chain(...)" in weekly_history
FoldWeeklyStep ==
    /\ mode = "weekly" /\ apc = "loop"
    /\ BagCardinality(stream) < MaxRecs
    /\ \E rec \in Records :
        IF rec[2] = None
        THEN \* date.isocalendar() on None: AttributeError
             /\ apc' = "raised"
             /\ UNCHANGED <<stream, commits, additions, deletions, start_date, end_date>>
        ELSE /\ stream' = stream (+) SetToBag({rec})
             /\ commits' = FoldWeekly(AccNow, user_map, rec).commits
             /\ additions' = FoldWeekly(AccNow, user_map, rec).additions
             /\ deletions' = FoldWeekly(AccNow, user_map, rec).deletions
             /\ start_date' = FoldWeekly(AccNow, user_map, rec).start_date
             /\ end_date' = FoldWeekly(AccNow, user_map, rec).end_date
             /\ apc' = apc
    /\ UNCHANGED <<mode, user_map, gaps>>

\* one iteration of "for email, date, stats in coretype(...)" in week_summary
FoldDailyStep ==
    /\ mode = "daily" /\ apc = "loop"
    /\ BagCardinality(stream) < MaxRecs
    /\ \E rec \in Records :
        IF rec[2] = None
        THEN \* date.replace(...) on None: AttributeError
             /\ apc' = "raised"
             /\ UNCHANGED <<stream, commits, additions, deletions>>
        ELSE /\ stream' = stream (+) SetToBag({rec})
             /\ commits' = FoldDaily(AccNow, user_map, rec).commits
             /\ additions' = FoldDaily(AccNow, user_map, rec).additions
             /\ deletions' = FoldDaily(AccNow, user_map, rec).deletions
             /\ apc' = apc
    /\ UNCHANGED <<mode, user_map, start_date, end_date, gaps>>

\* sorted(dct): the keys in ascending order
RECURSIVE Sorted(_)
Sorted(S) ==
    IF S = {} THEN <<>>
    ELSE LET m == CHOOSE x \in S : \A y \in S : x <= y
         IN  <<m>> \o Sorted(S \ {m})

\* (mutation: a difference of one week already counts as a gap)
GapCond_Seven(dd) == dd >= 7

\* date - last >= timedelta(days=8)
GapCond(dd) == dd >= 8

\* (mutation: the one week is not subtracted)
GapWeeks_Floor(dd) == dd \div 7

\* int((date - last).total_seconds() / (3600*24*7) - 1): int() truncates
\* toward zero
GapWeeks(dd) == IF dd >= 7 THEN (dd - 7) \div 7 ELSE 0 - ((7 - dd) \div 7)

\* the (year, week) pairs of one user in the order of the two nested
\* "for ... in sorted(...)" loops
RECURSIVE YearWeeks(_, _)
YearWeeks(byYear, years) ==
    IF Len(years) = 0 THEN <<>>
    ELSE [i \in 1..Cardinality(DOMAIN byYear[years[1]]) |->
            <<years[1], Sorted(DOMAIN byYear[years[1]])[i]>>]
         \o YearWeeks(byYear, Tail(years))

\* the gap lines printed while walking one user's buckets; last is the
\* previous bucket's date
RECURSIVE GapWalk(_, _, _)
GapWalk(byYear, keys, last) ==
    IF Len(keys) = 0 THEN <<>>
    ELSE LET dt == byYear[keys[1][1]][keys[1][2]][2]
         IN  (IF last # None /\ GapCond(dt - last[1])
              THEN <<[from |-> last[1], to |-> dt, weeks |-> GapWeeks(dt - last[1])]>>
              ELSE <<>>)
             \o GapWalk(byYear, Tail(keys), Some(dt))

\* the plaintext report of weekly_history.main: the gaps it prints per user
ReportWeekly ==
    /\ mode = "weekly" /\ apc = "loop"
    /\ gaps' = [u \in DOMAIN commits |->
                  GapWalk(commits[u], YearWeeks(commits[u], Sorted(DOMAIN commits[u])), None)]
    /\ apc' = "done"
    /\ UNCHANGED <<mode, user_map, stream, commits, additions, deletions,
                   start_date, end_date>>

\* the plaintext report of week_summary.main: no gap detection
ReportDaily ==
    /\ mode = "daily" /\ apc = "loop"
    /\ apc' = "done"
    /\ UNCHANGED <<mode, user_map, stream, commits, additions, deletions,
                   start_date, end_date, gaps>>

(***************************************************************************)
(* Plot axis: one position per ISO week of the years min_yr..max_yr.       *)
(* weekly_history.main computes the position with date_to_offset,          *)
(* year_summary.main fills the offsets table, one entry per iteration of   *)
(* its inner loop.                                                         *)
(***************************************************************************)
\* week_counts = {yr: weeks_in_year(yr) for yr in range(min_yr, max_yr+1)}
WeekCounts(lo, hi) == [y \in lo..hi |-> weeks_in_year(y)]

\* sum(count for yr, count in week_counts.items() if ...)
RECURSIVE SumCounts(_, _)
SumCounts(wc, S) ==
    IF S = {} THEN 0
    ELSE LET y == CHOOSE e \in S : TRUE
         IN  wc[y] + SumCounts(wc, S \ {y})

\* (mutation: the asked year itself is summed too)
date_to_offset_Le(wc, year, w) ==
    SumCounts(wc, {y \in DOMAIN wc : y <= year}) + w - 1

\* def date_to_offset(year, week): the sum never fails, whatever year and
\* week are: years absent from week_counts add nothing
date_to_offset(wc, year, w) ==
    SumCounts(wc, {y \in DOMAIN wc : y < year}) + w - 1

\* labels of weekly_history: "%d - %d" % (yr, i+1) is <<yr, i+1>> and
\* "%d" % (i+1) is <<i+1>>; i below is the code's i + 1
RECURSIVE WeeklyLabels(_, _, _, _)
WeeklyLabels(wc, y, lo, loweek) ==
    IF y \notin DOMAIN wc THEN <<>>
    ELSE [i \in 1..wc[y] |-> IF i = 1 \/ (y = lo /\ i = loweek)
                             THEN <<y, i>> ELSE <<i>>]
         \o WeeklyLabels(wc, y + 1, lo, loweek)

\* cur.strftime("%b"), as the month number
MonthOf(ord) ==
    LET y == YearOf(ord)
    IN  CHOOSE m \in 1..12 :
            /\ Ymd2Ord(y, m, 1) <= ord
            /\ ord < Ymd2Ord(y, m, 1) + DaysInMonth(y, m)

\* cur = datetime(year=yr, month=1, day=4), then cur += timedelta(days=7)
\* once per finished iteration
OffsetsCur(y, i) == Ymd2Ord(y, 1, 4) + 7 * i

\* week_counts = {...}; lastmon = None; the loops start at the first year
AxisCounts ==
    /\ xpc = "counts"
    /\ week_counts' = WeekCounts(min_yr, max_yr)
    /\ lastmon' = None
    /\ oyr' = min_yr /\ oi' = 0
    /\ xpc' = "build"
    /\ UNCHANGED <<min_yr, min_week, max_yr, labels, offsets, qres, bars>>

\* one iteration of "for i in range(weeks)" of year_summary, and the step
\* to the next year of the sorted week_counts when the range is exhausted
OffsetsStep ==
    /\ xpc = "build"
    /\ LET mon == MonthOf(OffsetsCur(oyr, oi))
       IN  /\ labels' = Append(labels, IF Some(mon) # lastmon THEN Some(mon) ELSE None)
           /\ lastmon' = Some(mon)
    /\ offsets' = Put(offsets, <<oyr, oi + 1>>, Cardinality(DOMAIN offsets))
    /\ IF oi + 1 < week_counts[oyr]
       THEN oi' = oi + 1 /\ UNCHANGED <<oyr, xpc>>
       ELSE IF oyr < max_yr
            THEN oyr' = oyr + 1 /\ oi' = 0 /\ UNCHANGED xpc
            ELSE xpc' = "built" /\ UNCHANGED <<oyr, oi>>
    /\ UNCHANGED <<min_yr, min_week, max_yr, week_counts, qres, bars>>

\* weeks asked for: first, last, and one past the longest year
QueryWeeks == {1, 2, 52, 53, 54}

\* pos = date_to_offset(year, week) and offset = offsets[(yr, wk)]:
\* the dictionary lookup raises KeyError for an absent key
AxisQuery ==
    /\ xpc = "built"
    /\ \E y \in (min_yr - 1)..(max_yr + 1), w \in QueryWeeks :
          qres' = Some([year |-> y, week |-> w,
                        wh |-> Some(date_to_offset(week_counts, y, w)),
                        ys |-> IF <<y, w>> \in DOMAIN offsets
                               THEN Some(offsets[<<y, w>>]) ELSE None])
    /\ UNCHANGED <<min_yr, min_week, max_yr, week_counts, labels, offsets,
                   lastmon, oyr, oi, xpc, bars>>

InitAxis ==
    /\ min_yr \in AxisFirstYear..AxisLastYear
    /\ max_yr \in min_yr..AxisLastYear
    /\ min_week = 1 /\ week_counts = EmptyDict
    /\ labels = <<>> /\ offsets = EmptyDict /\ lastmon = None
    /\ oyr = 0 /\ oi = 0 /\ xpc = "counts" /\ qres = None /\ bars = EmptyDict
    /\ InitCalIdle /\ InitParseIdle /\ InitAccIdle
    /\ InitMapIdle /\ InitProcIdle /\ InitTextIdle
    /\ InitSumIdle

NextAxis ==
    \/ AxisCounts /\ UNCHANGED <<calVars, parseVars, accVars, mapVars, procVars, textVars, sumVars>>
    \/ OffsetsStep /\ UNCHANGED <<calVars, parseVars, accVars, mapVars, procVars, textVars, sumVars>>
    \/ AxisQuery /\ UNCHANGED <<calVars, parseVars, accVars, mapVars, procVars, textVars, sumVars>>

SpecAxis == InitAxis /\ [][NextAxis]_vars

(***************************************************************************)
(* maps.FileUserMap: loading the user-map file, one line per step, and     *)
(* the map calls on the loaded table                                       *)
(***************************************************************************)
\* lines of a user-map file, as the file iterator gives them
ML_Space == EmailA \o <<" ">> \o NameAl \o <<"\n">>
ML_Tab == EmailA \o <<"\t">> \o NameAl \o <<"\n">>
ML_TabSpace == EmailA \o <<"\t", " ">> \o NameAl \o <<"\n">>
ML_Spaces == EmailB \o <<" ", "A", " ", "S", "\n">>
ML_TabName == EmailB \o <<"\t", "A", " ", "S", "\n">>
ML_NoSep == EmailB \o <<"\n">>
MapLines == {ML_Space, ML_Tab, ML_TabSpace, ML_Spaces, ML_TabName, ML_NoSep}

RECURSIVE SeqsUpTo(_, _)
SeqsUpTo(S, n) ==
    IF n = 0 THEN {<<>>}
    ELSE SeqsUpTo(S, n - 1) \cup {Append(f, x) : f \in SeqsUpTo(S, n - 1), x \in S}

\* the body of "for line in file": email, name = line.split(" ", 1) raises
\* ValueError when split returns one part, and the line is skipped
LoadLine(tbl, line) ==
    LET parts == Split1(line, " ")
    IN  IF Len(parts) = 2
        THEN Put(tbl, Strip(parts[1]), Strip(parts[2]))
        ELSE tbl

\* (mutation: an absent email is returned as it is)
MapLookup_Email(tbl, email) ==
    IF email # None /\ email[1] \in DOMAIN tbl
    THEN Some(tbl[email[1]])
    ELSE email

\* FileUserMap.map on a table: self.name_map[email], "unknown" on KeyError
MapLookup(tbl, email) ==
    IF email # None /\ email[1] \in DOMAIN tbl
    THEN Some(tbl[email[1]])
    ELSE Some(Unknown)

\* arguments of map: the author value of a record
QueryEmails == {Some(EmailA), Some(EmailB), None}

MapLoadLine ==
    /\ mpc = "load" /\ mline < Len(mapfile)
    /\ name_map' = LoadLine(name_map, mapfile[mline + 1])
    /\ mline' = mline + 1
    /\ UNCHANGED <<mapfile, mpc, mq>>

\* the file iterator is exhausted: __init__ returns
MapLoadEnd ==
    /\ mpc = "load" /\ mline = Len(mapfile)
    /\ mpc' = "ready"
    /\ UNCHANGED <<mapfile, mline, name_map, mq>>

\* FileUserMap.map(email)
MapFile ==
    /\ mpc = "ready"
    /\ \E email \in QueryEmails :
          mq' = Some([kind |-> "file", email |-> email, table |-> name_map,
                      result |-> MapLookup(name_map, email)])
    /\ UNCHANGED <<mapfile, mline, name_map, mpc>>

\* NullUserMap.map(email)
MapNull ==
    /\ mpc = "ready"
    /\ \E email \in QueryEmails :
          mq' = Some([kind |-> "null", email |-> email, table |-> name_map,
                      result |-> NullMap(email)])
    /\ UNCHANGED <<mapfile, mline, name_map, mpc>>

InitMap ==
    /\ mapfile \in SeqsUpTo(MapLines, MaxMapLines)
    /\ mline = 0 /\ name_map = EmptyDict /\ mpc = "load" /\ mq = None
    /\ InitCalIdle /\ InitParseIdle /\ InitAccIdle
    /\ InitPlotIdle /\ InitProcIdle /\ InitTextIdle
    /\ InitSumIdle

NextMap ==
    \/ MapLoadLine /\ UNCHANGED <<calVars, parseVars, accVars, plotVars, procVars, textVars, sumVars>>
    \/ MapLoadEnd /\ UNCHANGED <<calVars, parseVars, accVars, plotVars, procVars, textVars, sumVars>>
    \/ MapFile /\ UNCHANGED <<calVars, parseVars, accVars, plotVars, procVars, textVars, sumVars>>
    \/ MapNull /\ UNCHANGED <<calVars, parseVars, accVars, plotVars, procVars, textVars, sumVars>>

SpecMap == InitMap /\ [][NextMap]_vars

(***************************************************************************)
(* utils.get_proc_iter and the subprocess whose standard output it reads.  *)
(* The subprocess writes whole lines into the pipe, closes its output and  *)
(* terminates with an exit status; the generator runs beside it.  Lines    *)
(* are ASCII bytes, so decode("utf-8") keeps the characters.               *)
(***************************************************************************)
\* lines the subprocess writes, with their line end
RawCommit == LCommit \o <<"\n">>
RawBlank == <<"\n">>
RawPadded == <<"m", " ", "\n">>
RawLines == {RawCommit, RawBlank, RawPadded}

\* exit statuses: success, a failed command, git's fatal error
ExitCodes == {0, 1, 128}

\* the subprocess writes one line to its standard output
ProcWrite ==
    /\ pstate = "running" /\ Len(written) < MaxWrites
    /\ \E line \in RawLines :
          /\ pipe' = Append(pipe, line)
          /\ written' = Append(written, line)
    /\ UNCHANGED <<pstate, exitcode, output, yielded, gpc>>

\* the subprocess closes its standard output: readers see end of file once
\* the pipe is drained
ProcClose ==
    /\ pstate = "running"
    /\ pstate' = "closed"
    /\ UNCHANGED <<exitcode, pipe, written, output, yielded, gpc>>

\* the subprocess terminates, which closes its output if still open
ProcExit ==
    /\ pstate \in {"running", "closed"}
    /\ pstate' = "exited"
    /\ exitcode' \in ExitCodes
    /\ UNCHANGED <<pipe, written, output, yielded, gpc>>

\* output.rstrip().decode("utf-8")
YieldOf(raw) == RStripSet(raw, Whitespace)

\* process.poll() is not None
Polled == pstate = "exited"

\* (mutation: the loop is left as soon as the process has terminated)
BreakCond_Polled(o) == Polled

\* the condition of the break: output == b'' and process.poll() is not None
BreakCond(o) == o = <<>> /\ Polled

\* output = process.stdout.readline(): the next line of the pipe, b'' at
\* end of file, and blocked while the pipe is empty and open
GpReadline ==
    /\ gpc = "readline"
    /\ IF pipe # <<>>
       THEN output' = Some(Head(pipe)) /\ pipe' = Tail(pipe)
       ELSE pstate \in {"closed", "exited"} /\ output' = Some(<<>>) /\ UNCHANGED pipe
    /\ gpc' = "test"
    /\ UNCHANGED <<pstate, exitcode, written, yielded>>

\* the two ifs after the read: break, or yield the line, or read again.
\* The generator does not look at the exit status: after the break it
\* returns, which ends the iteration normally.
GpTest ==
    /\ gpc = "test"
    /\ IF BreakCond(output[1])
       THEN gpc' = "done" /\ UNCHANGED yielded
       ELSE /\ gpc' = "readline"
            /\ yielded' = IF output[1] # <<>>
                          THEN Append(yielded, YieldOf(output[1]))
                          ELSE yielded
    /\ UNCHANGED <<pstate, exitcode, pipe, written, output>>

\* process = subprocess.Popen(cmd, stdout=subprocess.PIPE, cwd=cwd)
InitProc ==
    /\ pstate = "running" /\ exitcode = 0 /\ pipe = <<>> /\ written = <<>>
    /\ output = None /\ yielded = <<>> /\ gpc = "readline"
    /\ InitCalIdle /\ InitParseIdle /\ InitAccIdle
    /\ InitPlotIdle /\ InitMapIdle /\ InitTextIdle
    /\ InitSumIdle

NextProc ==
    \/ ProcWrite /\ UNCHANGED <<calVars, parseVars, accVars, plotVars, mapVars, textVars, sumVars>>
    \/ ProcClose /\ UNCHANGED <<calVars, parseVars, accVars, plotVars, mapVars, textVars, sumVars>>
    \/ ProcExit /\ UNCHANGED <<calVars, parseVars, accVars, plotVars, mapVars, textVars, sumVars>>
    \/ GpReadline /\ UNCHANGED <<calVars, parseVars, accVars, plotVars, mapVars, textVars, sumVars>>
    \/ GpTest /\ UNCHANGED <<calVars, parseVars, accVars, plotVars, mapVars, textVars, sumVars>>

SpecProc == InitProc /\ [][NextProc]_vars

\* The generator is sequential code driven by the for loop that consumes
\* it: a read that can return does return, and the test after it runs.
\* Nothing is assumed about the subprocess.
GpStep ==
    /\ (GpReadline \/ GpTest)
    /\ UNCHANGED <<calVars, parseVars, accVars, plotVars, mapVars, textVars, sumVars>>

SpecProcFair == InitProc /\ [][NextProc]_vars /\ WF_vars(GpStep)

(***************************************************************************)
(* One repository from log text to weekly buckets: weekly_history.main     *)
(* iterating iterate_commits(get_repo_log(repo)).  The generator runs up   *)
(* to its next yield, then the loop body folds the yielded tuple.          *)
(***************************************************************************)
DigitChar(n) == CHOOSE c \in Digits : DigitVal(c) = n

\* a day as git prints it with --date=short: YYYY-MM-DD
DateText(ymd) ==
    <<DigitChar(ymd[1] \div 1000), DigitChar((ymd[1] \div 100) % 10),
      DigitChar((ymd[1] \div 10) % 10), DigitChar(ymd[1] % 10), "-",
      DigitChar(ymd[2] \div 10), DigitChar(ymd[2] % 10), "-",
      DigitChar(ymd[3] \div 10), DigitChar(ymd[3] % 10)>>

\* lines of git log --numstat --date=short --no-notes
EmailAXCom == <<"a", "@", "x", ".", "c", "o", "m">>
TCommit1 == LCommit
TCommit2 == <<"c", "o", "m", "m", "i", "t", " ", "2">>
TAuthor == <<"A", "u", "t", "h", "o", "r", ":", " ", "A", " ", "<">> \o EmailAXCom \o <<">">>
TDate(ymd) == <<"D", "a", "t", "e", ":", " ", " ", " ">> \o DateText(ymd)
TStat31 == <<"3", "\t", "1", "\t", "f", "i", "l", "e", ".", "t", "x", "t">>
TStat05 == <<"0", "\t", "5", "\t", "f", "i", "l", "e", ".", "t", "x", "t">>
TBlank == <<>>
TMsg == LMsg

\* days of the log: the turn of each year of the range and its leap day
LogDays ==
    {ymd \in (LogFirstYear..LogLastYear) \X {1, 2, 3, 12} \X (1..31) :
        ymd[3] <= DaysInMonth(ymd[1], ymd[2])}

\* two days exactly one week apart, in either order
WeekApart == {pq \in LogDays \X LogDays :
                 Ymd2Ord(pq[1][1], pq[1][2], pq[1][3]) - Ymd2Ord(pq[2][1], pq[2][2], pq[2][3])
                     \in {7, -7}}

\* the log of two commits by a@x.com: headers only, or with the blank lines
\* and the indented message git prints
LogBare(p, q) ==
    <<TCommit1, TAuthor, TDate(p), TStat31, TCommit2, TAuthor, TDate(q), TStat05>>
LogFull(p, q) ==
    <<TCommit1, TAuthor, TDate(p), TBlank, TMsg, TBlank, TStat31, TBlank,
      TCommit2, TAuthor, TDate(q), TBlank, TMsg, TBlank, TStat05>>
LogTexts == {LogBare(pq[1], pq[2]) : pq \in WeekApart} \cup {LogFull(pq[1], pq[2]) : pq \in WeekApart}

\* (mutation: the statistics are not reset at a commit boundary)
ResetAtBoundary_KeepStats(st) == <<None, None, st>>

\* author = None; date = None; stats = 0, 0
ResetAtBoundary(st) == <<None, None, <<0, 0>>>>

\* the body of "for line in it" for one line: the new pending tuple, the
\* tuple yielded if any, and the exception raised if any
ScanStep(a, dt, st, line) ==
    IF IsAuthor(line)
    THEN IF AuthorOf(line) = None
         THEN [pending |-> <<a, dt, st>>, emit |-> None, err |-> "ValueError"]
         ELSE [pending |-> <<AuthorOf(line), dt, st>>, emit |-> None, err |-> "none"]
    ELSE IF IsDate(line)
    THEN IF DateOf(line) = None
         THEN [pending |-> <<a, dt, st>>, emit |-> None, err |-> "ValueError"]
         ELSE [pending |-> <<a, DateOf(line), st>>, emit |-> None, err |-> "none"]
    ELSE IF IsCommit(line)
    THEN [pending |-> ResetAtBoundary(st), emit |-> EmitAtBoundary(a, dt, st), err |-> "none"]
    ELSE [pending |-> <<a, dt, AddStats(st, line)>>, emit |-> None, err |-> "none"]

\* every yielded tuple has been through the loop body of main
AllFolded == BagCardinality(stream) = Len(out)

\* while next(it)[0:7] != "commit ": pass, on the next line of the text
LogSeek ==
    /\ pc = "seek" /\ apc = "loop" /\ AllFolded /\ text # <<>>
    /\ consumed' = Consume(Head(text))
    /\ text' = Tail(text)
    /\ pc' = IF IsCommit(Head(text)) THEN "in" ELSE "seek"
    /\ UNCHANGED <<repo, author, date, stats, out, err, accVars>>

\* one iteration of "for line in it" on the next line of the text
LogScan ==
    /\ pc = "in" /\ apc = "loop" /\ AllFolded /\ text # <<>>
    /\ consumed' = Consume(Head(text))
    /\ text' = Tail(text)
    /\ LET s == ScanStep(author, date, stats, Head(text))
       IN  /\ author' = s.pending[1] /\ date' = s.pending[2] /\ stats' = s.pending[3]
           /\ out' = out \o [i \in 1..Len(s.emit) |-> Emitted(s.emit)]
           /\ err' = s.err
           /\ pc' = IF s.err = "none" THEN "in" ELSE "raised"
    /\ UNCHANGED <<repo, accVars>>

\* the text is exhausted: StopIteration in the seek loop, or the code after
\* the for loop; there is one repository, so the stream ends
LogEnd ==
    /\ pc \in {"seek", "in"} /\ apc = "loop" /\ AllFolded /\ text = <<>>
    /\ IF pc = "seek"
       THEN \E g \in GeneratorStop :
               /\ pc' = IF g = "RuntimeError" THEN "raised" ELSE "done"
               /\ err' = IF g = "RuntimeError" THEN "RuntimeError" ELSE err
               /\ UNCHANGED out
       ELSE /\ out' = out \o [i \in 1..Len(EmitAtEnd(author, date, stats)) |->
                                Emitted(EmitAtEnd(author, date, stats))]
            /\ pc' = "done"
            /\ UNCHANGED err
    /\ UNCHANGED <<repo, consumed, author, date, stats, text, accVars>>

\* the loop body of weekly_history.main for the tuple just yielded
LogFold ==
    /\ apc = "loop" /\ ~AllFolded
    /\ LET rec == out[BagCardinality(stream) + 1].rec
       IN  IF rec[2] = None
           THEN \* date.isocalendar() on None: AttributeError
                /\ apc' = "raised"
                /\ UNCHANGED <<stream, commits, additions, deletions, start_date, end_date>>
           ELSE /\ stream' = stream (+) SetToBag({rec})
                /\ commits' = FoldWeekly(AccNow, user_map, rec).commits
                /\ additions' = FoldWeekly(AccNow, user_map, rec).additions
                /\ deletions' = FoldWeekly(AccNow, user_map, rec).deletions
                /\ start_date' = FoldWeekly(AccNow, user_map, rec).start_date
                /\ end_date' = FoldWeekly(AccNow, user_map, rec).end_date
                /\ apc' = apc
    /\ UNCHANGED <<mode, user_map, gaps, parseVars, text>>

InitLog ==
    /\ text \in LogTexts
    /\ repo = 1 /\ consumed = <<<<>>>> /\ pc = "seek"
    /\ author = None /\ date = None /\ stats = <<0, 0>>
    /\ out = <<>> /\ err = "none"
    /\ mode = "weekly" /\ user_map \in {"null", "file"}
    /\ stream = EmptyBag
    /\ commits = EmptyDict /\ additions = EmptyDict /\ deletions = EmptyDict
    /\ start_date = None /\ end_date = None
    /\ apc = "loop" /\ gaps = EmptyDict
    /\ InitCalIdle /\ InitPlotIdle /\ InitMapIdle /\ InitProcIdle
    /\ InitSumIdle

NextLog ==
    \/ LogSeek /\ UNCHANGED <<calVars, plotVars, mapVars, procVars, sumVars>>
    \/ LogScan /\ UNCHANGED <<calVars, plotVars, mapVars, procVars, sumVars>>
    \/ LogEnd /\ UNCHANGED <<calVars, plotVars, mapVars, procVars, sumVars>>
    \/ LogFold /\ UNCHANGED <<calVars, plotVars, mapVars, procVars, sumVars>>

SpecLog == InitLog /\ [][NextLog]_vars

(***************************************************************************)
(* Plotting of weekly_history.main: the axis over the ISO years of         *)
(* start_date..end_date and the three bar lists of each user               *)
(***************************************************************************)
\* (mutation: the last year is left out, range(min_yr, max_yr))
PlotCounts_Exclusive(lo, hi) == WeekCounts(lo, hi - 1)

\* week_counts of the plot
PlotCounts(lo, hi) == WeekCounts(lo, hi)

\* lst[pos] = v on a Python list: positions 0..len-1, negative positions
\* count from the end, any other position raises IndexError (None)
ListSet(lst, pos, v) ==
    IF 0 <= pos /\ pos < Len(lst) THEN Some([lst EXCEPT ![pos + 1] = v])
    ELSE IF 0 - Len(lst) <= pos /\ pos < 0 THEN Some([lst EXCEPT ![Len(lst) + pos + 1] = v])
    ELSE None

\* the orders in which a dictionary can hand out its keys
Orders(S) == {f \in [1..Cardinality(S) -> S] : \A i, j \in 1..Cardinality(S) : f[i] = f[j] => i = j}

\* the body of the two loops over commits[user] for the keys in the order
\* given: grn[pos], red[pos], cnt[pos] are assigned, None after an IndexError
RECURSIVE PlotWalk(_, _, _, _, _)
PlotWalk(wc, u, order, i, lists) ==
    IF i > Len(order) \/ lists = None THEN lists
    ELSE LET y == order[i][1]
             w == order[i][2]
             pos == date_to_offset(wc, y, w)
             g == ListSet(lists[1].grn, pos, additions[u][y][w])
             r == ListSet(lists[1].red, pos, deletions[u][y][w])
             c == ListSet(lists[1].cnt, pos, commits[u][y][w][1])
         IN  PlotWalk(wc, u, order, i + 1,
                      IF g = None \/ r = None \/ c = None THEN None
                      ELSE Some([grn |-> g[1], red |-> r[1], cnt |-> c[1]]))

\* template = [0 for i in range(len(labels))]; grn = template[:] ...
PlotUser(wc, n, u, order) ==
    PlotWalk(wc, u, order, 1,
             Some([grn |-> [i \in 1..n |-> 0], red |-> [i \in 1..n |-> 0],
                   cnt |-> [i \in 1..n |-> 0]]))

\* the (year, week) keys of commits[u]
PlotKeys(u) == UNION {{<<y, w>> : w \in DOMAIN commits[u][y]} : y \in DOMAIN commits[u]}

\* the lists of all users, for every order the dictionaries can be walked in
RECURSIVE PlotsOf(_, _, _)
PlotsOf(wc, n, U) ==
    IF U = {} THEN {EmptyDict}
    ELSE LET u == CHOOSE x \in U : TRUE
         IN  {Put(rest, u, PlotUser(wc, n, u, o)) :
                 rest \in PlotsOf(wc, n, U \ {u}), o \in Orders(PlotKeys(u))}

\* "with PdfPages(plotout) as pdf:" of weekly_history.main, after the report
PlotWeekly ==
    /\ mode = "weekly" /\ apc = "done" /\ xpc = "idle"
    /\ xpc' = "plot"
    /\ IF start_date = None
       THEN \* start_date.isocalendar() on None: AttributeError
            /\ apc' = "raised"
            /\ UNCHANGED <<min_yr, min_week, max_yr, week_counts, labels, bars>>
       ELSE /\ min_yr' = IsoCalendar(start_date[1])[1]
            /\ min_week' = IsoCalendar(start_date[1])[2]
            /\ max_yr' = IsoCalendar(end_date[1])[1]
            /\ week_counts' = PlotCounts(min_yr', max_yr')
            /\ labels' = WeeklyLabels(week_counts', min_yr', min_yr', min_week')
            /\ bars' \in PlotsOf(week_counts', Len(labels'), DOMAIN commits)
            /\ apc' = IF \E u \in DOMAIN bars' : bars'[u] = None
                      THEN "raised" ELSE "plotted"
    /\ UNCHANGED <<mode, user_map, stream, commits, additions, deletions,
                   start_date, end_date, gaps, offsets, lastmon, oyr, oi, qres>>

(***************************************************************************)
(* year_summary.main and week_summary.main: the search bound taken from    *)
(* the clock, the daily accumulation of what the backend yields, and the   *)
(* lookup of every stored date in the offsets table built from the clock.  *)
(* year_summary reads git log through iterate_commits, week_summary is     *)
(* modelled with its GitlabBackend.                                        *)
(***************************************************************************)
\* dt.replace(year=y): Some(the day), or None when datetime raises
\* ValueError because the month of year y has no such day
ReplaceYear(ord, y) ==
    LET month == MonthOf(ord)
        day == ord - Ymd2Ord(YearOf(ord), month, 1) + 1
    IN  IF day <= DaysInMonth(y, month)
        THEN Some(Ymd2Ord(y, month, day))
        ELSE None

\* year_ago = today.replace(year = today.year - 1);
\* _, __, dow = year_ago.isocalendar(); year_ago -= timedelta(days=(dow-1))
YearAgo(now) ==
    LET r == ReplaceYear(now, YearOf(now) - 1)
    IN  IF r = None THEN None
        ELSE Some(r[1] - (IsoCalendar(r[1])[3] - 1))

\* the values datetime.now() can have, as days: the turn of the year and
\* the end of February of every year of the range
ClockDays ==
    UNION {(Ymd2Ord(y, 1, 1)..Ymd2Ord(y, 1, 7))
             \cup (Ymd2Ord(y, 2, 27)..Ymd2Ord(y, 3, 1))
             \cup (Ymd2Ord(y, 12, 28)..Ymd2Ord(y, 12, 31)) : y \in ClockFirstYear..ClockLastYear}

\* GitlabBackend.__iter__: if self.since is None or date >= self.since
GitlabYields(day) == since = None \/ day >= since[1]

\* the bound of the search: year_ago of year_summary, and
\* week_ago = today - timedelta(days=7) of week_summary
SumSince ==
    /\ spc = "clock"
    /\ since' = IF mode = "year" THEN YearAgo(today) ELSE Some(today - 7)
    /\ IF since' = None
       THEN spc' = "raised" /\ serr' = "ValueError"
       ELSE spc' = "loop" /\ UNCHANGED serr
    /\ UNCHANGED <<today, accVars, plotVars>>

\* one iteration of the accumulation loop on the next tuple of the backend;
\* a commit the Gitlab backend filters out yields nothing.  The log prints
\* the author date of a commit and the server its own creation date,
\* whatever the clock of this machine says, so the date of a tuple can lie
\* before the bound or after today
SumFold ==
    /\ spc = "loop"
    /\ BagCardinality(stream) < MaxSumRecs
    /\ \E day \in {since[1] - 7, since[1], today, today + 1} :
          LET rec == <<Some(EmailA), Some(day), <<3, 1>>>>
          IN  /\ (mode = "week" => GitlabYields(day))
              /\ stream' = stream (+) SetToBag({rec})
              /\ commits' = FoldDaily(AccNow, user_map, rec).commits
              /\ IF mode = "week"
                 THEN /\ additions' = FoldDaily(AccNow, user_map, rec).additions
                      /\ deletions' = FoldDaily(AccNow, user_map, rec).deletions
                 ELSE UNCHANGED <<additions, deletions>>
    /\ UNCHANGED <<mode, user_map, start_date, end_date, apc, gaps,
                   today, since, spc, serr, plotVars>>

\* the backend is exhausted; year_summary then takes the years of the axis
\* from year_ago and today, week_summary goes on to its plot
SumLoopEnd ==
    /\ spc = "loop"
    /\ IF mode = "year"
       THEN /\ min_yr' = IsoCalendar(since[1])[1]
            /\ min_week' = IsoCalendar(since[1])[2]
            /\ max_yr' = IsoCalendar(today)[1]
            /\ xpc' = "counts"
            /\ spc' = "axis"
       ELSE /\ spc' = "plot"
            /\ UNCHANGED <<min_yr, min_week, max_yr, xpc>>
    /\ UNCHANGED <<today, since, serr, accVars, week_counts, labels, offsets,
                   lastmon, oyr, oi, qres, bars>>

\* yr, wk, dow = date.isocalendar(): the key (yr, wk) of the offsets table
YearWeek(dy) == <<IsoCalendar(dy)[1], IsoCalendar(dy)[2]>>

\* the (user, date) pairs of the daily dictionaries
StoredDays == UNION {{<<u, dy>> : dy \in DOMAIN commits[u]} : u \in DOMAIN commits}

\* year_summary: offset = offsets[(yr, wk)] for every stored date, KeyError
\* for a week that is not in the table
SumLookupYear ==
    /\ spc = "axis" /\ xpc = "built"
    /\ IF \A ud \in StoredDays : YearWeek(ud[2]) \in DOMAIN offsets
       THEN /\ spc' = "plotted"
            /\ bars' = [u \in DOMAIN commits |->
                          [dy \in DOMAIN commits[u] |-> offsets[YearWeek(dy)]]]
            /\ UNCHANGED serr
       ELSE /\ spc' = "raised" /\ serr' = "KeyError"
            /\ UNCHANGED bars
    /\ UNCHANGED <<today, since, accVars, min_yr, min_week, max_yr, week_counts,
                   labels, offsets, lastmon, oyr, oi, xpc, qres>>

\* cur = week_ago; while cur <= today: offsets[cur] = len(offsets); ...
RECURSIVE DayOffsets(_, _, _)
DayOffsets(cur, last, tbl) ==
    IF cur <= last
    THEN DayOffsets(cur + 1, last, Put(tbl, cur, Cardinality(DOMAIN tbl)))
    ELSE tbl

\* week_summary: the table of the days week_ago..today, their labels as
\* weekday numbers, and pos = offsets[date] for every stored date
SumPlotWeek ==
    /\ spc = "plot"
    /\ offsets' = DayOffsets(since[1], today, EmptyDict)
    /\ labels' = [i \in 1..(today - since[1] + 1) |-> Weekday(since[1] + i - 1)]
    /\ IF \A ud \in StoredDays : ud[2] \in DOMAIN offsets'
       THEN /\ spc' = "plotted"
            /\ bars' = [u \in DOMAIN commits |->
                          [dy \in DOMAIN commits[u] |-> offsets'[dy]]]
            /\ UNCHANGED serr
       ELSE /\ spc' = "raised" /\ serr' = "KeyError"
            /\ UNCHANGED bars
    /\ UNCHANGED <<today, since, accVars, min_yr, min_week, max_yr, week_counts,
                   lastmon, oyr, oi, xpc, qres>>

InitSummary ==
    /\ today \in ClockDays /\ since = None /\ spc = "clock" /\ serr = "none"
    /\ mode \in {"year", "week"} /\ user_map = "null"
    /\ stream = EmptyBag
    /\ commits = EmptyDict /\ additions = EmptyDict /\ deletions = EmptyDict
    /\ start_date = None /\ end_date = None /\ apc = "idle" /\ gaps = EmptyDict
    /\ InitPlotIdle /\ InitCalIdle /\ InitParseIdle
    /\ InitMapIdle /\ InitProcIdle /\ InitTextIdle

NextSummary ==
    \/ SumSince /\ UNCHANGED <<calVars, parseVars, mapVars, procVars, textVars>>
    \/ SumFold /\ UNCHANGED <<calVars, parseVars, mapVars, procVars, textVars>>
    \/ SumLoopEnd /\ UNCHANGED <<calVars, parseVars, mapVars, procVars, textVars>>
    \/ AxisCounts /\ spc = "axis"
         /\ UNCHANGED <<calVars, parseVars, accVars, mapVars, procVars, textVars, sumVars>>
    \/ OffsetsStep /\ spc = "axis"
         /\ UNCHANGED <<calVars, parseVars, accVars, mapVars, procVars, textVars, sumVars>>
    \/ SumLookupYear /\ UNCHANGED <<calVars, parseVars, mapVars, procVars, textVars>>
    \/ SumPlotWeek /\ UNCHANGED <<calVars, parseVars, mapVars, procVars, textVars>>

SpecSummary == InitSummary /\ [][NextSummary]_vars

InitAcc ==
    /\ mode \in {"weekly", "daily"}
    /\ user_map \in {"null", "file"}
    /\ stream = EmptyBag
    /\ commits = EmptyDict /\ additions = EmptyDict /\ deletions = EmptyDict
    /\ start_date = None /\ end_date = None
    /\ apc = "loop" /\ gaps = EmptyDict
    /\ InitCalIdle /\ InitParseIdle
    /\ InitPlotIdle /\ InitMapIdle /\ InitProcIdle /\ InitTextIdle
    /\ InitSumIdle

NextAcc ==
    \/ FoldWeeklyStep /\ UNCHANGED <<calVars, parseVars, plotVars, mapVars, procVars, textVars, sumVars>>
    \/ FoldDailyStep /\ UNCHANGED <<calVars, parseVars, plotVars, mapVars, procVars, textVars, sumVars>>
    \/ ReportWeekly /\ UNCHANGED <<calVars, parseVars, plotVars, mapVars, procVars, textVars, sumVars>>
    \/ ReportDaily /\ UNCHANGED <<calVars, parseVars, plotVars, mapVars, procVars, textVars, sumVars>>
    \/ PlotWeekly /\ UNCHANGED <<calVars, parseVars, mapVars, procVars, textVars, sumVars>>

SpecAcc == InitAcc /\ [][NextAcc]_vars

(***************************************************************************)
(* Specification of one weeks_in_year call, for any year of the range.     *)
(* The loop is sequential code that always runs to its return: weak        *)
(* fairness on its steps.                                                  *)
(***************************************************************************)
InitCal ==
    /\ yr \in FirstYear..LastYear
    /\ d = 0 /\ week = 0 /\ wpc = "call" /\ ret = 0
    /\ InitParseIdle /\ InitAccIdle
    /\ InitPlotIdle /\ InitMapIdle /\ InitProcIdle /\ InitTextIdle
    /\ InitSumIdle

NextCal ==
    \/ WiyCall /\ UNCHANGED <<parseVars, accVars, plotVars, mapVars, procVars, textVars, sumVars>>
    \/ WiyStepBack /\ UNCHANGED <<parseVars, accVars, plotVars, mapVars, procVars, textVars, sumVars>>
    \/ WiyReturn /\ UNCHANGED <<parseVars, accVars, plotVars, mapVars, procVars, textVars, sumVars>>

SpecCal == InitCal /\ [][NextCal]_vars /\ WF_vars(NextCal)

(***************************************************************************)
(* What the record stream says, read off the multiset of folded records    *)
(***************************************************************************)
RECURSIVE SumOver(_, _)
SumOver(S, f) ==
    IF S = {} THEN 0
    ELSE LET e == CHOOSE x \in S : TRUE
         IN  f[e] + SumOver(S \ {e}, f)

Folded == BagToSet(stream)

\* the period a record falls in: (ISO year, ISO week), or its day
PeriodOf(rec) ==
    IF mode = "weekly"
    THEN <<IsoCalendar(rec[2][1])[1], IsoCalendar(rec[2][1])[2]>>
    ELSE <<rec[2][1]>>

\* the folded records that resolved to user u and period p
Contrib(u, p) == {e \in Folded : MapUser(user_map, e[1]) = u /\ PeriodOf(e) = p}

\* the buckets of the three dictionaries, as (user, period) pairs
KeysOf(dct) ==
    IF mode = "weekly"
    THEN UNION {UNION {{<<u, <<y, w>>>> : w \in DOMAIN dct[u][y]} : y \in DOMAIN dct[u]} :
                  u \in DOMAIN dct}
    ELSE UNION {{<<u, <<dy>>>> : dy \in DOMAIN dct[u]} : u \in DOMAIN dct}

At(dct, k) == IF mode = "weekly" THEN dct[k[1]][k[2][1]][k[2][2]] ELSE dct[k[1]][k[2][1]]

CountAt(k) == IF mode = "weekly" THEN At(commits, k)[1] ELSE At(commits, k)

\* no dictionary holds an empty inner dictionary or a key outside the range
WellKeyed(dct) ==
    \A u \in DOMAIN dct :
        /\ DOMAIN dct[u] # {}
        /\ IF mode = "weekly"
           THEN \A y \in DOMAIN dct[u] :
                   /\ y \in FirstYear..LastYear
                   /\ DOMAIN dct[u][y] # {}
                   /\ DOMAIN dct[u][y] \subseteq 1..53
           ELSE DOMAIN dct[u] \subseteq CommitDates

C7_Buckets ==
    mode \in {"weekly", "daily"} =>
        /\ WellKeyed(commits) /\ WellKeyed(additions) /\ WellKeyed(deletions)
        /\ KeysOf(additions) = KeysOf(commits) /\ KeysOf(deletions) = KeysOf(commits)
        /\ KeysOf(commits) = {<<MapUser(user_map, e[1]), PeriodOf(e)>> : e \in Folded}
        /\ \A k \in KeysOf(commits) :
            LET M == Contrib(k[1], k[2])
            IN  /\ CountAt(k) = SumOver(M, [e \in M |-> stream[e]])
                /\ At(additions, k) = SumOver(M, [e \in M |-> stream[e] * e[3][1]])
                /\ At(deletions, k) = SumOver(M, [e \in M |-> stream[e] * e[3][2]])

C7_Monotone ==
    \A k \in KeysOf(commits) :
        /\ k \in KeysOf(commits')
        /\ (IF mode = "weekly" THEN At(commits', k)[1] ELSE At(commits', k)) >= CountAt(k)
        /\ At(additions', k) >= At(additions, k)
        /\ At(deletions', k) >= At(deletions, k)

\* C7: after the accumulation loop consumed a record stream there is exactly
\* one bucket per (user, period) pair that received a record and none for any
\* other pair; its commit count is the number of records that resolved to
\* that pair and its insertions/deletions are their sums; buckets are only
\* created or increased, never deleted or decreased.
C7_BucketsAreTallies == [](C7_Buckets) /\ [][C7_Monotone]_vars

\* two records of one user fell into the same weekly bucket and a third one
\* into another
C7_Witness ==
    /\ mode = "weekly" /\ apc = "done"
    /\ BagCardinality(stream) = 3
    /\ \E k \in KeysOf(commits) : CountAt(k) = 2 /\ At(additions, k) = 3 /\ At(deletions, k) = 6
    /\ Cardinality(KeysOf(commits)) = 2

\* every order in which the folded records can arrive
RECURSIVE PermsOf(_)
PermsOf(b) ==
    IF BagToSet(b) = {} THEN {<<>>}
    ELSE UNION {{<<e>> \o p : p \in PermsOf(b (-) SetToBag({e}))} : e \in BagToSet(b)}

RECURSIVE FoldSeq(_, _)
FoldSeq(acc, p) ==
    IF Len(p) = 0 THEN acc
    ELSE FoldSeq(IF mode = "weekly" THEN FoldWeekly(acc, user_map, p[1])
                 ELSE FoldDaily(acc, user_map, p[1]),
                 Tail(p))

UserRecs(u) == {e \in Folded : MapUser(user_map, e[1]) = u}
UserKeys(u) == {k \in KeysOf(commits) : k[1] = u}

\* C8: the fold is independent of input order: every permutation of the
\* folded multiset of records gives the same bucket map (count, insertions,
\* deletions, periodStartDate), the same per-user totals and the same
\* [minDate, maxDate].
C8_OrderIndependent ==
    apc = "done" =>
        /\ \A p \in PermsOf(stream) : FoldSeq(Acc0, p) = AccNow
        /\ \A u \in DOMAIN commits :
            /\ SumOver(UserKeys(u), [k \in UserKeys(u) |-> CountAt(k)])
                 = SumOver(UserRecs(u), [e \in UserRecs(u) |-> stream[e]])
            /\ SumOver(UserKeys(u), [k \in UserKeys(u) |-> At(additions, k)])
                 = SumOver(UserRecs(u), [e \in UserRecs(u) |-> stream[e] * e[3][1]])
            /\ SumOver(UserKeys(u), [k \in UserKeys(u) |-> At(deletions, k)])
                 = SumOver(UserRecs(u), [e \in UserRecs(u) |-> stream[e] * e[3][2]])

\* three different records were folded, two of them with different commit
\* dates inside the same ISO week
C8_Witness ==
    /\ mode = "weekly" /\ apc = "done"
    /\ Cardinality(Folded) = 3
    /\ \E e1, e2 \in Folded :
        /\ e1[2] = Some(D_2015_12_28) /\ e2[2] = Some(D_2016_01_01) /\ e1[1] = e2[1]
    /\ start_date # end_date

\* the periodStartDates of user u's buckets
BucketDates(u) == UNION {{commits[u][y][w][2] : w \in DOMAIN commits[u][y]} : y \in DOMAIN commits[u]}

\* chronologically consecutive bucket dates of user u
Consecutive(u) ==
    {ab \in BucketDates(u) \X BucketDates(u) :
        ab[1] < ab[2] /\ ~\E c \in BucketDates(u) : ab[1] < c /\ c < ab[2]}

ExpectedGaps(u) ==
    {[from |-> ab[1], to |-> ab[2], weeks |-> ((ab[2] - ab[1]) \div 7) - 1] :
        ab \in {x \in Consecutive(u) : x[2] - x[1] >= 8}}

\* C9: per user, between chronologically consecutive buckets a gap is
\* reported iff the periodStartDates differ by at least 8 days, with length
\* floor(deltaDays / 7) - 1 weeks; exactly 7 days reports nothing; buckets at
\* ISO weeks 1, 2, 5 of one year report exactly one gap, of 2 weeks, between
\* week 2 and week 5.
C9_Gaps ==
    (mode = "weekly" /\ apc = "done") =>
        /\ DOMAIN gaps = DOMAIN commits
        /\ \A u \in DOMAIN commits :
            /\ {gaps[u][i] : i \in 1..Len(gaps[u])} = ExpectedGaps(u)
            /\ Len(gaps[u]) = Cardinality(ExpectedGaps(u))
            /\ \A i, j \in 1..Len(gaps[u]) : i < j => gaps[u][i].to <= gaps[u][j].from
            /\ \A y \in DOMAIN commits[u] :
                 (DOMAIN commits[u] = {y} /\ DOMAIN commits[u][y] = {1, 2, 5})
                    => gaps[u] = <<[from |-> commits[u][y][2][2],
                                    to |-> commits[u][y][5][2], weeks |-> 2]>>

\* a user with buckets at weeks 1, 2 and 5 of 2016 got the one gap line
C9_Witness ==
    /\ mode = "weekly" /\ apc = "done"
    /\ \E u \in DOMAIN commits :
        /\ DOMAIN commits[u] = {2016}
        /\ DOMAIN commits[u][2016] = {1, 2, 5}
        /\ gaps[u] = <<[from |-> Ymd2Ord(2016, 1, 11), to |-> Ymd2Ord(2016, 2, 1), weeks |-> 2]>>

\* the ISO-8601 rule: 53 weeks iff Jan 1 is a Thursday, or a Wednesday in a leap year
Iso53Rule(y) ==
    \/ Weekday(Ymd2Ord(y, 1, 1)) = 3
    \/ Weekday(Ymd2Ord(y, 1, 1)) = 2 /\ IsLeap(y)

C10_Returned ==
    wpc = "returned" =>
        /\ ret \in {52, 53}
        /\ (ret = 53) <=> Iso53Rule(yr)
        /\ (yr = 2015 => ret = 53)
        /\ (yr = 2016 => ret = 52)
        /\ (yr = 2020 => ret = 53)

\* C10: for every year weeks_in_year terminates and returns 52 or 53, 53
\* exactly when January 1 is a Thursday or a Wednesday of a leap year; it
\* returns 53 for 2015, 52 for 2016 and 53 for 2020.
C10_WeeksInYear == [](C10_Returned) /\ <>(wpc = "returned")

\* a call that had to step back from week 1 of the next ISO year has returned
C10_Witness == wpc = "returned" /\ d < WiyDec31(yr) /\ ret = 52

(***************************************************************************)
(* Week ordinals of a built range min_yr..max_yr                           *)
(***************************************************************************)
\* the (year, week) pairs of the built range
AxisPairs == {p \in (min_yr..max_yr) \X (1..53) : p[2] <= weeks_in_year(p[1])}

\* position of an ISO week counted in whole weeks from week 1 of min_yr
WeeksSince(y, w) == ((IsoWeek1Monday(y) + 7 * (w - 1)) - IsoWeek1Monday(min_yr)) \div 7

\* the recurrence of the ordinal, for a function ord of (year, week)
Contiguous(ord(_, _)) ==
    /\ ord(min_yr, 1) = 0
    /\ \A y \in min_yr..max_yr :
          /\ \A w \in 1..(weeks_in_year(y) - 1) : ord(y, w + 1) = ord(y, w) + 1
          /\ y < max_yr => ord(y + 1, 1) = ord(y, weeks_in_year(y)) + 1
          /\ \A w \in 1..weeks_in_year(y) : ord(y, w) = WeeksSince(y, w)

\* C11: over a built range the ordinal of (year, week) starts at 0 for
\* (min_yr, 1), grows by one from each week to the next within a year and
\* from the last week of a year to week 1 of the next, so it is the number
\* of weeks since the start, without a skipped or repeated integer - for
\* date_to_offset of weekly_history and for the offsets table of
\* year_summary, whose entries at every moment of its construction are the
\* first ones in this order.
C11_Ordinals ==
    xpc \in {"build", "built"} =>
        /\ Contiguous(LAMBDA y, w : date_to_offset(week_counts, y, w))
        /\ DOMAIN offsets \subseteq AxisPairs
        /\ \A k \in DOMAIN offsets : offsets[k] = WeeksSince(k[1], k[2])
        /\ {offsets[k] : k \in DOMAIN offsets} = 0..(Cardinality(DOMAIN offsets) - 1)
        /\ xpc = "built" =>
              /\ DOMAIN offsets = AxisPairs
              /\ Contiguous(LAMBDA y, w : offsets[<<y, w>>])

\* the table over 2015..2016 is built: 2015 has 53 weeks, so week 1 of 2016
\* has ordinal 53, in the table and by date_to_offset
C11_Witness ==
    /\ xpc = "built" /\ min_yr = 2015 /\ max_yr = 2016
    /\ offsets[<<2015, 53>>] = 52 /\ offsets[<<2016, 1>>] = 53
    /\ qres = Some([year |-> 2016, week |-> 1, wh |-> Some(53), ys |-> Some(53)])

\* a queried pair lies outside the built range
Outside(y, w) == <<y, w>> \notin AxisPairs

\* C12: a query for a (year, week) outside the built range - year below
\* min_yr, above max_yr, or week above the year's week count - is an error
\* and gives no integer, from date_to_offset and from the offsets table.
C12_OutsideIsError ==
    (qres # None /\ Outside(qres[1].year, qres[1].week)) =>
        (qres[1].wh = None /\ qres[1].ys = None)

(***************************************************************************)
(* Identity resolution                                                     *)
(***************************************************************************)
\* C13: NullUserMap.map returns its argument; FileUserMap.map returns the
\* name of the table for an email that is a key of it and "unknown" for any
\* other argument; the call always returns a value and leaves the table as
\* it was.
C13_MapTotal ==
    mq # None =>
        LET q == mq[1]
        IN  /\ q.table = name_map
            /\ q.kind = "null" => q.result = q.email
            /\ q.kind = "file" =>
                  /\ Len(q.result) = 1
                  /\ \A e \in DOMAIN q.table :
                        q.email = Some(e) => q.result = Some(q.table[e])
                  /\ (\A e \in DOMAIN q.table : q.email # Some(e))
                        => q.result = Some(Unknown)

\* a table that maps a@x only is asked for b@y and answers "unknown"
C13_Witness ==
    /\ mq # None /\ mq[1].kind = "file"
    /\ DOMAIN name_map = {EmailA}
    /\ mq[1].email = Some(EmailB) /\ mq[1].result = Some(Unknown)

\* the format of the documentation: the email is the text before the first
\* space or tab, the name is the rest without the separator run and without
\* the line end; None when the line holds no separator
Seps == {" ", "\t"}
RECURSIVE UntilSep(_)
UntilSep(s) == IF Len(s) > 0 /\ s[1] \notin Seps THEN 1 + UntilSep(Tail(s)) ELSE 0
DocParse(line) ==
    LET body == RStripSet(line, {"\n", "\r"})
        n == UntilSep(body)
        name == LStripSet(Suffix(body, n), Seps)
    IN  IF n >= 1 /\ n < Len(body) /\ Len(name) >= 1
        THEN Some(<<Prefix(body, n), name>>)
        ELSE None

\* the table the documented format gives for the lines read, a later line
\* of an email replacing an earlier one
RECURSIVE DocTable(_)
DocTable(lines) ==
    IF lines = <<>> THEN EmptyDict
    ELSE LET before == DocTable(SubSeq(lines, 1, Len(lines) - 1))
             p == DocParse(lines[Len(lines)])
         IN  IF p = None THEN before ELSE Put(before, p[1][1], p[1][2])

\* C18: each line "email, one or more spaces or tabs, name" of the user-map
\* file maps exactly that email to exactly that name, with a tab as with a
\* space and with a name that holds spaces, and a line without separator
\* adds nothing.
C18_DocFormat == name_map = DocTable(SubSeq(mapfile, 1, mline))

(***************************************************************************)
(* The line source                                                         *)
(***************************************************************************)
\* C14: when the subprocess ends with a non-zero exit status, before any
\* output or after some lines, the line iterator does not end normally: the
\* iteration ends normally only after exit status 0.
C14_AbnormalExitIsError == gpc = "done" => exitcode = 0

(***************************************************************************)
(* From log text to buckets                                                *)
(***************************************************************************)
\* the user the two commits are counted for
LogUser == MapUser(user_map, Some(EmailAXCom))

\* C15: a log of two commits by a@x.com one week apart, the first with the
\* numstat line "3 1 file.txt" and the second with "0 5 file.txt", read to
\* its end and folded, gives that user 2 commits, 3 insertions and 6
\* deletions in total, in two buckets with different (year, week) keys and
\* one commit each.
C15_EndToEnd ==
    (consumed # <<>> /\ consumed[1] \in LogTexts /\ pc = "done" /\ AllFolded) =>
        /\ apc = "loop" /\ err = "none"
        /\ DOMAIN commits = {LogUser}
        /\ Cardinality(UserKeys(LogUser)) = 2
        /\ \A k \in UserKeys(LogUser) : CountAt(k) = 1
        /\ SumOver(UserKeys(LogUser), [k \in UserKeys(LogUser) |-> CountAt(k)]) = 2
        /\ SumOver(UserKeys(LogUser), [k \in UserKeys(LogUser) |-> At(additions, k)]) = 3
        /\ SumOver(UserKeys(LogUser), [k \in UserKeys(LogUser) |-> At(deletions, k)]) = 6

\* the log with the commits of 2016-01-04 and 2015-12-28 and with message
\* lines has been read and folded under the raw-email mapping: the buckets
\* are week 1 of 2016 with +3 -1 and week 53 of 2015 with +0 -5
C15_Witness ==
    /\ pc = "done" /\ AllFolded /\ user_map = "null"
    /\ consumed = <<LogFull(<<2016, 1, 4>>, <<2015, 12, 28>>)>>
    /\ UserKeys(Some(EmailAXCom)) = {<<Some(EmailAXCom), <<2016, 1>>>>, <<Some(EmailAXCom), <<2015, 53>>>>}
    /\ additions[Some(EmailAXCom)][2016][1] = 3 /\ deletions[Some(EmailAXCom)][2016][1] = 1
    /\ additions[Some(EmailAXCom)][2015][53] = 0 /\ deletions[Some(EmailAXCom)][2015][53] = 5

(***************************************************************************)
(* Period start and date range                                             *)
(***************************************************************************)
\* the week-start Monday of a day, as the fold computes it
MondayOf(day) == PeriodStart(day, IsoCalendar(day)[3])

IsoKey(day) == LET iso == IsoCalendar(day) IN <<iso[1], iso[2]>>

\* the days from 25 December of year y to 7 January of the next
YearTurn(y) == Ymd2Ord(y, 12, 25)..Ymd2Ord(y + 1, 1, 7)

\* C16: in weekly mode the date stored in a bucket is the Monday of the ISO
\* week of every commit counted in it, at most 6 days before the commit,
\* and two commit dates have the same (ISO year, week) key exactly when
\* their week-start Mondays are equal - for the folded dates and for all
\* days around every turn of year, where the ISO year differs from the
\* calendar year; in daily mode the key of a bucket is the commit's own day.
C16_WeekStart ==
    LET keys == KeysOf(commits)
        days == {e[2][1] : e \in Folded}
        key == [dy \in days |-> IsoKey(dy)]
        monday == [dy \in days |-> MondayOf(dy)]
        user == [e \in Folded |-> MapUser(user_map, e[1])]
    IN  /\ mode = "weekly" =>
              /\ \A k \in keys :
                    /\ Weekday(At(commits, k)[2]) = 0
                    /\ At(commits, k)[2] = IsoWeek1Monday(k[2][1]) + 7 * (k[2][2] - 1)
                    /\ \A e \in Folded :
                          (user[e] = k[1] /\ key[e[2][1]] = k[2]) =>
                              /\ At(commits, k)[2] <= e[2][1]
                              /\ e[2][1] - At(commits, k)[2] <= 6
              /\ \A e \in Folded : <<user[e], key[e[2][1]]>> \in keys
              /\ \A d1, d2 \in days : key[d1] = key[d2] <=> monday[d1] = monday[d2]
              /\ stream = EmptyBag =>
                    \A y \in FirstYear..(LastYear - 1) :
                        LET k == [dy \in YearTurn(y) |-> IsoKey(dy)]
                            m == [dy \in YearTurn(y) |-> MondayOf(dy)]
                        IN  \A d1, d2 \in YearTurn(y) : k[d1] = k[d2] <=> m[d1] = m[d2]
        /\ mode = "daily" =>
              /\ \A e \in Folded : <<user[e], <<e[2][1]>>>> \in keys
              /\ \A k \in keys : \E e \in Folded : user[e] = k[1] /\ e[2][1] = k[2][1]

\* a commit of Friday 2016-01-01 is counted in week 53 of ISO year 2015,
\* whose stored date is Monday 2015-12-28
C16_Witness ==
    /\ mode = "weekly"
    /\ \E e \in Folded :
          /\ e[2][1] = D_2016_01_01
          /\ <<MapUser(user_map, e[1]), <<2015, 53>>>> \in KeysOf(commits)
          /\ commits[MapUser(user_map, e[1])][2015][53][2] = D_2015_12_28

\* the stored dates of all buckets of all users
AllBucketDates == UNION {BucketDates(u) : u \in DOMAIN commits}

\* C17: in weekly mode, after each fold, start_date is the least and
\* end_date the greatest stored period start over all buckets of all users,
\* and start_date <= end_date once a record has been folded; before that
\* both are unset.
C17_DateRange ==
    mode = "weekly" =>
        IF stream = EmptyBag
        THEN start_date = None /\ end_date = None
        ELSE /\ start_date # None /\ end_date # None
             /\ start_date[1] \in AllBucketDates /\ end_date[1] \in AllBucketDates
             /\ \A m \in AllBucketDates : start_date[1] <= m /\ m <= end_date[1]
             /\ start_date[1] <= end_date[1]

\* three buckets of two users: the range runs from the earliest Monday, of
\* one user, to the latest, of the other
C17_Witness ==
    /\ mode = "weekly" /\ user_map = "null"
    /\ DOMAIN commits = {Some(EmailA), Some(EmailB)}
    /\ BucketDates(Some(EmailA)) = {D_2015_12_28, D_2016_01_04}
    /\ BucketDates(Some(EmailB)) = {D_2016_02_01}
    /\ start_date = Some(D_2015_12_28) /\ end_date = Some(D_2016_02_01)

(***************************************************************************)
(* Gaps as differences of week ordinals                                    *)
(***************************************************************************)
\* the (year, week) keys of user u and the years they span
YearWeekKeys(u) == {k[2] : k \in UserKeys(u)}
KeyYears(u) == {yw[1] : yw \in YearWeekKeys(u)}

\* the week ordinals of the keys of user u, counted over the years of u's keys
OrdinalsOf(u) ==
    LET wc == WeekCounts(CHOOSE y \in KeyYears(u) : \A z \in KeyYears(u) : y <= z,
                         CHOOSE y \in KeyYears(u) : \A z \in KeyYears(u) : z <= y)
    IN  [yw \in YearWeekKeys(u) |-> date_to_offset(wc, yw[1], yw[2])]

OrdinalOf(u, yw) == OrdinalsOf(u)[yw]

\* pairs of keys with no key between them, for the ordinals ord of the keys
ConsecutiveKeys(ord) ==
    {ab \in (DOMAIN ord) \X (DOMAIN ord) :
        /\ ord[ab[1]] < ord[ab[2]]
        /\ ~\E c \in DOMAIN ord : ord[ab[1]] < ord[c] /\ ord[c] < ord[ab[2]]}

\* the ISO weeks strictly between two keys of u, as their Mondays
WeeksBetween(u, ab) ==
    {m \in (commits[u][ab[1][1]][ab[1][2]][2] + 1)..(commits[u][ab[2][1]][ab[2][2]][2] - 1) :
        Weekday(m) = 0}

\* C19: for two consecutive weekly buckets of a user the reported gap is the
\* number of ISO weeks strictly between them, ordinal(later) -
\* ordinal(earlier) - 1, also from one ISO year to the next and over a year
\* of 53 weeks; a gap line is printed exactly when that number is at least
\* 1, so no printed gap is 0 or negative.
C19_GapIsOrdinalDifference ==
    (mode = "weekly" /\ apc \in {"done", "plotted"}) =>
        \A u \in DOMAIN commits :
            LET ord == OrdinalsOf(u)
                pairs == ConsecutiveKeys(ord)
                printed == {gaps[u][i] : i \in 1..Len(gaps[u])}
            IN  /\ \A ab \in pairs :
                      LET missing == ord[ab[2]] - ord[ab[1]] - 1
                          line == [from |-> commits[u][ab[1][1]][ab[1][2]][2],
                                   to |-> commits[u][ab[2][1]][ab[2][2]][2],
                                   weeks |-> missing]
                      IN  /\ missing = Cardinality(WeeksBetween(u, ab))
                          /\ missing >= 1 <=> line \in printed
                          /\ missing = 0 => ~\E g \in printed : g.from = line.from
                /\ \A g \in printed :
                      /\ g.weeks >= 1
                      /\ \E ab \in pairs :
                            /\ g.from = commits[u][ab[1][1]][ab[1][2]][2]
                            /\ g.to = commits[u][ab[2][1]][ab[2][2]][2]
                /\ Len(gaps[u]) = Cardinality({ab \in pairs : ord[ab[2]] - ord[ab[1]] >= 2})

\* buckets at week 53 of 2015 and week 2 of 2016: ordinals 52 and 54, one
\* week (week 1 of 2016) between them, reported as a gap of 1 week
C19_Witness ==
    /\ mode = "weekly" /\ apc = "done"
    /\ \E u \in DOMAIN commits :
          /\ YearWeekKeys(u) = {<<2015, 53>>, <<2016, 2>>}
          /\ OrdinalOf(u, <<2015, 53>>) = 52 /\ OrdinalOf(u, <<2016, 2>>) = 54
          /\ gaps[u] = <<[from |-> D_2015_12_28, to |-> Ymd2Ord(2016, 1, 11), weeks |-> 1]>>

(***************************************************************************)
(* Axis positions of the weekly plot                                       *)
(***************************************************************************)
\* the axis position of a (year, week) key of the plot
PosOf(yw) == date_to_offset(week_counts, yw[1], yw[2])

\* C20: when weekly_history plots, every bucket (user, ISO year, week) of
\* the accumulation has date_to_offset(year, week) in 0 .. number of labels
\* - 1, the labels being one per week of the ISO years of start_date ..
\* end_date, and two different buckets of one user have different
\* positions: the plot raises nothing and each bar holds its bucket.
C20_PositionsInRange ==
    (mode = "weekly" /\ xpc = "plot" /\ stream # EmptyBag) =>
        /\ apc = "plotted"
        /\ min_yr = IsoCalendar(start_date[1])[1] /\ max_yr = IsoCalendar(end_date[1])[1]
        /\ Len(labels) = SumOver(min_yr..max_yr, [y \in min_yr..max_yr |-> weeks_in_year(y)])
        /\ \A u \in DOMAIN commits :
              /\ \A yw \in YearWeekKeys(u) :
                    /\ 0 <= PosOf(yw) /\ PosOf(yw) < Len(labels)
                    /\ bars[u][1].cnt[PosOf(yw) + 1] = commits[u][yw[1]][yw[2]][1]
                    /\ bars[u][1].grn[PosOf(yw) + 1] = additions[u][yw[1]][yw[2]]
                    /\ bars[u][1].red[PosOf(yw) + 1] = deletions[u][yw[1]][yw[2]]
              /\ \A a, b \in YearWeekKeys(u) : PosOf(a) = PosOf(b) => a = b

\* a user with buckets in week 53 of 2015 and week 1 of 2016 is plotted on
\* an axis of 53 + 52 labels at positions 52 and 53
C20_Witness ==
    /\ mode = "weekly" /\ apc = "plotted" /\ Len(labels) = 105
    /\ \E u \in DOMAIN commits :
          /\ YearWeekKeys(u) = {<<2015, 53>>, <<2016, 1>>}
          /\ PosOf(<<2015, 53>>) = 52 /\ PosOf(<<2016, 1>>) = 53
          /\ bars[u][1].cnt[53] >= 1 /\ bars[u][1].cnt[54] >= 1

(***************************************************************************)
(* The line iterator beside the writing subprocess                         *)
(***************************************************************************)
\* a written line as it is to be yielded: without its line end and other
\* trailing white space, so a blank line is the empty string
RECURSIVE Chomp(_)
Chomp(raw) ==
    IF Len(raw) > 0 /\ raw[Len(raw)] \in {" ", "\t", "\n", "\r"}
    THEN Chomp(SubSeq(raw, 1, Len(raw) - 1))
    ELSE raw

\* the written lines that have left the pipe and passed the yield
Delivered ==
    Len(written) - Len(pipe) - (IF gpc = "test" /\ output[1] # <<>> THEN 1 ELSE 0)

\* at every moment the yielded lines are the first written lines, each once
\* and in the order written, and they are all of them once the iterator ended
InOrderOnce ==
    /\ Len(yielded) = Delivered
    /\ \A i \in 1..Len(yielded) : yielded[i] = Chomp(written[i])
    /\ gpc = "done" => (Len(yielded) = Len(written) /\ pipe = <<>> /\ pstate = "exited")

\* C21: under every interleaving of the subprocess's writes, close and exit
\* with the reads of get_proc_iter, the lines yielded are the lines written,
\* each exactly once and in the order written, a blank line as the empty
\* string; and once the subprocess has exited the iterator drains the pipe
\* and terminates.
C21_EveryLineOnceThenEnd ==
    /\ []InOrderOnce
    /\ (pstate = "exited") ~> (gpc = "done")

\* the subprocess wrote a commit line, a blank line and a padded line and
\* exited; the iterator yielded the three, the blank one as "", and ended
C21_Witness ==
    /\ gpc = "done" /\ pstate = "exited"
    /\ written = <<RawCommit, RawBlank, RawPadded>>
    /\ yielded = <<LCommit, <<>>, <<"m">>>>

(***************************************************************************)
(* The summaries: offset lookup and search bound                           *)
(***************************************************************************)
\* C22: in year_summary and week_summary every stored date has an entry in
\* the offsets table built from the clock, so the lookup of the plot never
\* raises KeyError, whatever dates the backend yields - also a date before
\* the bound of the search or after today.
C22_LookupNeverFails == serr # "KeyError"

\* the same calendar day one year before day now, when that day exists
DayAYearBefore(now) == ReplaceYear(now, YearOf(now) - 1)

\* C23: for every current date, 29 February included, year_summary gets its
\* bound without error: the Monday of the ISO week that holds the same
\* calendar day of the year before, which is not after today.
C23_BoundOfSearch ==
    (mode = "year" /\ spc # "clock") =>
        /\ serr # "ValueError"
        /\ since # None
        /\ Weekday(since[1]) = 0
        /\ since[1] <= today
        /\ DayAYearBefore(today) # None =>
              (since[1] <= DayAYearBefore(today)[1] /\ DayAYearBefore(today)[1] - since[1] <= 6)

====
